---- MODULE Spec2Model ----
(***************************************************************************)
(* Home Middleman: the task automation engine of index.js and its SQLite   *)
(* persistence (db/drizzle.js).                                            *)
(*                                                                         *)
(* A JavaScript string is a sequence of one-character strings, so that     *)
(* String.trim, parseInt and the regular expressions of doTask are         *)
(* computed character by character, as the code computes them.             *)
(***************************************************************************)
EXTENDS Integers, Sequences, FiniteSets, Bags, TLC

(***************************************************************************)
(* Strings                                                                 *)
(***************************************************************************)

\* undefined / null: a field absent from a config entry, a NULL column
NoValue == <<"undefined">>

IsDigit(c) == c \in {"0", "1", "2", "3", "4", "5", "6", "7", "8", "9"}

\* \s of the regular expressions and the white space of String.trim
IsSpace(c) == c \in {" ", "\t"}

NotSpace(c) == ~IsSpace(c)

\* the character classes of the regular expressions: \d, \s, \S written
\* <<"digit">>, <<"space">>, <<"nonspace">>, and [^x] written <<"not", x>>
InClass(c, cls) ==
  CASE cls[1] = "digit" -> IsDigit(c)
    [] cls[1] = "space" -> IsSpace(c)
    [] cls[1] = "nonspace" -> NotSpace(c)
    [] OTHER -> c # cls[2]

DigitVal(c) ==
  CASE c = "0" -> 0 [] c = "1" -> 1 [] c = "2" -> 2 [] c = "3" -> 3
    [] c = "4" -> 4 [] c = "5" -> 5 [] c = "6" -> 6 [] c = "7" -> 7
    [] c = "8" -> 8 [] c = "9" -> 9

DigitChar(n) == <<"0", "1", "2", "3", "4", "5", "6", "7", "8", "9">>[n + 1]

\* the value of a run of decimal digits
RECURSIVE ToNat(_)
ToNat(ds) ==
  IF ds = <<>> THEN 0
  ELSE ToNat(SubSeq(ds, 1, Len(ds) - 1)) * 10 + DigitVal(ds[Len(ds)])

RECURSIVE NatStr(_)
NatStr(n) ==
  IF n < 10 THEN <<DigitChar(n)>>
  ELSE NatStr(n \div 10) \o <<DigitChar(n % 10)>>

\* a number converted to a string, as string concatenation converts it
NumStr(n) == IF n < 0 THEN <<"-">> \o NatStr(-n) ELSE NatStr(n)

\* the first index j >= i of a character outside the class (Len(s) + 1 when
\* there is none): the end of a greedy run
RunEnd(s, i, cls) ==
  CHOOSE j \in i..(Len(s) + 1) :
    /\ \A k \in i..(j - 1) : InClass(s[k], cls)
    /\ (j = Len(s) + 1 \/ ~InClass(s[j], cls))

StartsAt(s, i, lit) ==
  /\ i + Len(lit) - 1 <= Len(s)
  /\ SubSeq(s, i, i + Len(lit) - 1) = lit

Trim_None(s) == s

\* String.prototype.trim
Trim(s) ==
  LET a == RunEnd(s, 1, <<"space">>)
      b == IF a > Len(s) THEN a - 1
           ELSE CHOOSE j \in a..Len(s) :
                  /\ NotSpace(s[j])
                  /\ \A k \in (j + 1)..Len(s) : IsSpace(s[k])
  IN SubSeq(s, a, b)

\* String(v || '')
StringOrEmpty(v) == IF v = NoValue THEN <<>> ELSE v

\* parseInt(v, 10): leading white space, an optional sign, the longest run of
\* digits; NaN without a digit. What follows the digits is ignored.
ParseInt(v) ==
  IF v = NoValue THEN [nan |-> TRUE, val |-> 0]
  ELSE
    LET a    == RunEnd(v, 1, <<"space">>)
        neg  == a <= Len(v) /\ v[a] = "-"
        sgn  == a <= Len(v) /\ v[a] \in {"-", "+"}
        b    == IF sgn THEN a + 1 ELSE a
        e    == RunEnd(v, b, <<"digit">>)
        n    == ToNat(SubSeq(v, b, e - 1))
    IN IF e = b THEN [nan |-> TRUE, val |-> 0]
       ELSE [nan |-> FALSE, val |-> IF neg THEN -n ELSE n]

\* the replacement of s[from..to] by r
Splice(s, from, to, r) == SubSeq(s, 1, from - 1) \o r \o SubSeq(s, to + 1, Len(s))

\* the least index of a set of indices, 0 when it is empty
Least(S) == IF S = {} THEN 0 ELSE CHOOSE i \in S : \A k \in S : i <= k

\* the n characters at index i replaced by r, nothing replaced when i = 0
ReplaceAt(s, i, n, r) == IF i = 0 THEN s ELSE Splice(s, i, i + n - 1, r)

\* String.prototype.replace(lit, r) with a string pattern: the first occurrence
ReplaceLit(s, lit, r) ==
  ReplaceAt(s, Least({k \in 1..Len(s) : StartsAt(s, k, lit)}), Len(lit), r)

\* String.prototype.split(sep) for a one-character separator
RECURSIVE Split(_, _)
Split(s, sep) ==
  LET k == RunEnd(s, 1, <<"not", sep>>)
  IN IF k > Len(s) THEN <<s>>
     ELSE <<SubSeq(s, 1, k - 1)>> \o Split(SubSeq(s, k + 1, Len(s)), sep)

\* Array.prototype.join(sep)
RECURSIVE Join(_, _)
Join(parts, sep) ==
  IF parts = <<>> THEN <<>>
  ELSE IF Len(parts) = 1 THEN parts[1]
  ELSE parts[1] \o sep \o Join(Tail(parts), sep)

(***************************************************************************)
(* The placeholders of doTask                                              *)
(***************************************************************************)

HourLit == <<"~", "h", "o", "u", "r", "~">>
DateLit == <<"~", "d", "a", "t", "e", "~">>
IncKw == <<"~", "i", "n", "c", "$">>
DecKw == <<"~", "d", "e", "c", "$">>
FilesKw == <<"~", "f", "i", "l", "e", "s">>
LinesKw == <<"~", "l", "i", "n", "e", "s">>
WordsKw == <<"~", "w", "o", "r", "d", "s">>

\* /~inc\$(\d+)~/ and /~dec\$(\d+)~/ matched at index i
CounterAt(s, i, kw) ==
  /\ StartsAt(s, i, kw)
  /\ LET e == RunEnd(s, i + Len(kw), <<"digit">>)
     IN e > i + Len(kw) /\ e <= Len(s) /\ s[e] = "~"

\* the match at index i: [at, end, n], at = 0 when i = 0
CounterMatchAt(s, i, kw) ==
  IF i = 0 THEN [at |-> 0, end |-> 0, n |-> 0]
  ELSE LET e == RunEnd(s, i + Len(kw), <<"digit">>)
       IN [at |-> i, end |-> e, n |-> ToNat(SubSeq(s, i + Len(kw), e - 1))]

\* the first match
CounterMatch(s, kw) ==
  CounterMatchAt(s, Least({k \in 1..Len(s) : CounterAt(s, k, kw)}), kw)

\* the match m replaced by r, nothing replaced when there is no match
ReplaceMatch(s, m, r) == IF m.at = 0 THEN s ELSE Splice(s, m.at, m.end, r)

\* (m, p) => parseInt(p)
CounterValue(m) == NumStr(m.n)

\* .replace(/~inc\$(\d+)~/, (m, p) => parseInt(p))
EvalCounter(s, kw) == ReplaceMatch(s, CounterMatch(s, kw), CounterValue(CounterMatch(s, kw)))

\* (m, p) => "~inc$" + (parseInt(p) + 1) + "~", step = 1; the dec form, step = -1
CounterNext(m, kw, step) == kw \o NumStr(m.n + step) \o <<"~">>

\* .replace(/~inc\$(\d+)~/, (m, p) => "~inc$" + (parseInt(p) + 1) + "~")
AdvCounter(s, kw, step) ==
  ReplaceMatch(s, CounterMatch(s, kw), CounterNext(CounterMatch(s, kw), kw, step))

\* /~{([^}]*)}~/ matched at index i
ListAt(s, i) ==
  /\ StartsAt(s, i, <<"~", "{">>)
  /\ LET k == RunEnd(s, i + 2, <<"not", "}">>)
     IN k + 1 <= Len(s) /\ s[k + 1] = "~"

\* contents.split(' ')[0]
ListFirst(contents) == Split(contents, " ")[1]

\* '~{' + split.slice(1).join(' ') + ` ${split.slice(0, 1)}` + '}~'
ListRotate(contents) ==
  LET parts == Split(contents, " ")
  IN <<"~", "{">> \o Join(Tail(parts), <<" ">>) \o <<" ">> \o parts[1] \o <<"}", "~">>

\* .replace(/~{([^}]*)}~/g, f): every match, left to right, from index `from`;
\* f is the rotation when `rotate`, the first token otherwise
RECURSIVE ReplaceLists(_, _, _)

\* the rest of s from index `from`, its first match being at i (0: none)
ReplaceListFrom(s, from, rotate, i) ==
  IF i = 0 THEN SubSeq(s, from, Len(s))
  ELSE LET k == RunEnd(s, i + 2, <<"not", "}">>)
           contents == SubSeq(s, i + 2, k - 1)
       IN SubSeq(s, from, i - 1)
            \o (IF rotate THEN ListRotate(contents) ELSE ListFirst(contents))
            \o ReplaceLists(s, k + 2, rotate)

\* a replace without the g flag: the first match only
ReplaceLists_First(s, from, rotate) ==
  LET i == Least({k \in from..Len(s) : ListAt(s, k)})
      e == RunEnd(s, i + 2, <<"not", "}">>)
  IN IF i = 0 THEN SubSeq(s, from, Len(s))
     ELSE SubSeq(s, from, i - 1)
            \o (IF rotate THEN ListRotate(SubSeq(s, i + 2, e - 1))
                ELSE ListFirst(SubSeq(s, i + 2, e - 1)))
            \o SubSeq(s, e + 2, Len(s))

ReplaceLists(s, from, rotate) ==
  ReplaceListFrom(s, from, rotate, Least({k \in from..Len(s) : ListAt(s, k)}))

\* /~(\d+)\s*\+\s*(\d+)~/ (op = "+") and /~(\d+)\s*\-\s*(\d+)~/ (op = "-") at i
ArithAt(s, i, op) ==
  /\ s[i] = "~"
  /\ LET a == RunEnd(s, i + 1, <<"digit">>)
         b == RunEnd(s, a, <<"space">>)
     IN /\ a > i + 1
        /\ b <= Len(s)
        /\ s[b] = op
        /\ LET c == RunEnd(s, b + 1, <<"space">>)
               d == RunEnd(s, c, <<"digit">>)
           IN d > c /\ d <= Len(s) /\ s[d] = "~"

\* the match at index i: [at, end, co1, co2], at = 0 when i = 0
ArithMatchAt(s, i) ==
  IF i = 0 THEN [at |-> 0, end |-> 0, co1 |-> <<>>, co2 |-> <<>>]
  ELSE LET a == RunEnd(s, i + 1, <<"digit">>)
           b == RunEnd(s, a, <<"space">>)
           c == RunEnd(s, b + 1, <<"space">>)
           d == RunEnd(s, c, <<"digit">>)
       IN [at |-> i, end |-> d, co1 |-> SubSeq(s, i + 1, a - 1),
           co2 |-> SubSeq(s, c, d - 1)]

\* the first match
ArithMatch(s, op) ==
  ArithMatchAt(s, Least({k \in 1..Len(s) : ArithAt(s, k, op)}))

\* (match, co1, co2) => co1
EvalArith(s, op) == ReplaceMatch(s, ArithMatch(s, op), ArithMatch(s, op).co1)

\* "~" + (parseInt(co1) + parseInt(co2)) + " + " + co2 + "~", and the - form
ArithNext(m, op) ==
  <<"~">>
    \o NumStr(IF op = "+" THEN ToNat(m.co1) + ToNat(m.co2)
              ELSE ToNat(m.co1) - ToNat(m.co2))
    \o <<" ", op, " ">> \o m.co2 \o <<"~">>

AdvArith(s, op) == ReplaceMatch(s, ArithMatch(s, op), ArithNext(ArithMatch(s, op), op))

\* \s+(\d+)~ matched at index j
TailAt(s, j) ==
  /\ j <= Len(s)
  /\ LET c == RunEnd(s, j, <<"space">>)
         d == RunEnd(s, c, <<"digit">>)
     IN c > j /\ d > c /\ d <= Len(s) /\ s[d] = "~"

\* /~files\s+(\S+)\s+(\d+)~/ matched at index i
FilesAt(s, i) ==
  /\ StartsAt(s, i, FilesKw)
  /\ LET a == RunEnd(s, i + Len(FilesKw), <<"space">>)
         b == RunEnd(s, a, <<"nonspace">>)
     IN a > i + Len(FilesKw) /\ b > a /\ TailAt(s, b)

\* /~lines\s+(.+?)\s+(\d+)~/ and /~words\s+(.+?)\s+(\d+)~/ matched at index i:
\* co1 = s[p..e] starts after at least one white space and is followed by \s+(\d+)~
LazyAt(s, i, kw) ==
  /\ StartsAt(s, i, kw)
  /\ LET a == RunEnd(s, i + Len(kw), <<"space">>)
     IN \E p \in (i + Len(kw) + 1)..a : \E e \in p..Len(s) :
          /\ \A k \in p..e : s[k] # "\n"
          /\ TailAt(s, e + 1)

\* the match of the files form at index i: [at, end, co1, co2]
FilesMatchAt(s, i) ==
  IF i = 0 THEN [at |-> 0, end |-> 0, co1 |-> <<>>, co2 |-> <<>>]
  ELSE LET a == RunEnd(s, i + Len(FilesKw), <<"space">>)
           b == RunEnd(s, a, <<"nonspace">>)
           c == RunEnd(s, b, <<"space">>)
           d == RunEnd(s, c, <<"digit">>)
       IN [at |-> i, end |-> d, co1 |-> SubSeq(s, a, b - 1),
           co2 |-> SubSeq(s, c, d - 1)]

\* the first match of the files form
FilesMatch(s) == FilesMatchAt(s, Least({k \in 1..Len(s) : FilesAt(s, k)}))

\* (.+?)\s+(\d+)~ with co1 = s[p..e]
LazyOk(s, p, e) == (\A k \in p..e : s[k] # "\n") /\ TailAt(s, e + 1)

\* some co1 starts at p
LazyFrom(s, p) == \E e \in p..Len(s) : LazyOk(s, p, e)

\* the greedy \s+ gives way one character at a time: the largest start of co1
LazyStart(s, i, kw) ==
  LET a == RunEnd(s, i + Len(kw), <<"space">>)
  IN CHOOSE q \in (i + Len(kw) + 1)..a :
       LazyFrom(s, q) /\ \A r \in (q + 1)..a : ~LazyFrom(s, r)

\* the lazy .+? takes the least end of co1
LazyEnd(s, p) ==
  CHOOSE f \in p..Len(s) : LazyOk(s, p, f) /\ \A g \in p..(f - 1) : ~LazyOk(s, p, g)

\* [at, end, co1, co2] of a match at i with co1 = s[p..e]
LazyGroups(s, i, p, e) ==
  LET c == RunEnd(s, e + 1, <<"space">>)
      d == RunEnd(s, c, <<"digit">>)
  IN [at |-> i, end |-> d, co1 |-> SubSeq(s, p, e), co2 |-> SubSeq(s, c, d - 1)]

\* the match at index i with co1 starting at p
LazyMatchFrom(s, i, p) == LazyGroups(s, i, p, LazyEnd(s, p))

\* the match of the lines / words form at index i, at = 0 when i = 0
LazyMatchAt(s, i, kw) ==
  IF i = 0 THEN [at |-> 0, end |-> 0, co1 |-> <<>>, co2 |-> <<>>]
  ELSE LazyMatchFrom(s, i, LazyStart(s, i, kw))

\* the first match of the lines / words form
LazyMatch(s, kw) ==
  LazyMatchAt(s, Least({k \in 1..Len(s) : LazyAt(s, k, kw)}), kw)

(***************************************************************************)
(* The upload/ folder, read by the files, lines and words placeholders     *)
(***************************************************************************)

\* fs.readdirSync(upload/<folder>): the entries, NoValue when it throws
ReadDir(folder) ==
  IF folder = <<"d">>
  THEN << [name |-> <<"p">>, isFile |-> TRUE],
          [name |-> <<"q">>, isFile |-> TRUE],
          [name |-> <<"s">>, isFile |-> FALSE] >>
  ELSE NoValue

\* fs.readFileSync(upload/<fileName>, 'utf-8'): the text, NoValue when it throws
ReadFile(fileName) ==
  IF fileName = <<"f">>
  THEN <<"u", " ", "v", "\n", "w">>
  ELSE NoValue

fileById_Name(folder, id) == folder \o <<"/">> \o id

\* fileById(folder, id)
fileById(folder, id) ==
  LET files == ReadDir(folder)
      idx   == ParseInt(id)
  IN IF files = NoValue THEN <<>>
     ELSE IF idx.nan \/ idx.val < 0 \/ idx.val >= Len(files) THEN <<>>
     ELSE IF files[idx.val + 1].isFile
          THEN folder \o <<"/">> \o files[idx.val + 1].name
          ELSE <<>>

\* array[id] for a string id: an element only for the canonical decimal form
AtKey(arr, id) ==
  IF id = NatStr(ToNat(id)) /\ ToNat(id) < Len(arr) THEN arr[ToNat(id) + 1] ELSE <<>>

\* getLine(fileName, id)
getLine(fileName, id) ==
  LET text == ReadFile(fileName)
  IN IF text = NoValue THEN <<>> ELSE AtKey(Split(text, "\n"), id)

\* getWord(fileName, id)
getWord(fileName, id) ==
  LET text == ReadFile(fileName)
  IN IF text = NoValue THEN <<>> ELSE AtKey(Split(text, " "), id)

\* (match, co1, co2) => fileById(co1, co2), getLine(co1, co2), getWord(co1, co2)
IndexedValue(m, kw) ==
  IF kw = FilesKw THEN fileById(m.co1, m.co2)
  ELSE IF kw = LinesKw THEN getLine(m.co1, m.co2)
  ELSE getWord(m.co1, m.co2)

EvalFiles(s) == ReplaceMatch(s, FilesMatch(s), IndexedValue(FilesMatch(s), FilesKw))

EvalLazy(s, kw) == ReplaceMatch(s, LazyMatch(s, kw), IndexedValue(LazyMatch(s, kw), kw))

\* `~files ${co1} ${parseInt(co2) + 1}~` and the lines / words forms
AdvIndexed(s, kw, m) ==
  ReplaceMatch(s, m, kw \o <<" ">> \o m.co1 \o <<" ">> \o NumStr(ToNat(m.co2) + 1)
                        \o <<"~">>)

(***************************************************************************)
(* doTask: this run's value and the next run's template                    *)
(***************************************************************************)

\* .replace('~hour~', getHour()).replace("~date~", getDate())
EvalClock(t, hour, date) == ReplaceLit(ReplaceLit(t, HourLit, hour), DateLit, date)

\* the inc and dec forms, then the lists
EvalCounters(s) == ReplaceLists(EvalCounter(EvalCounter(s, IncKw), DecKw), 1, FALSE)

\* the + and - forms, then files, lines and words
EvalRest(s) ==
  EvalLazy(EvalLazy(EvalFiles(EvalArith(EvalArith(s, "+"), "-")), LinesKw), WordsKw)

\* the chain of .replace calls that gives the value dispatched by this run
Evaluate(t, hour, date) == EvalRest(EvalCounters(EvalClock(t, hour, date)))

AdvFiles(s) == AdvIndexed(s, FilesKw, FilesMatch(s))

AdvLazy(s, kw) == AdvIndexed(s, kw, LazyMatch(s, kw))

\* the inc and dec forms, then the lists
AdvCounters(s) == ReplaceLists(AdvCounter(AdvCounter(s, IncKw, 1), DecKw, -1), 1, TRUE)

\* the + and - forms, then files, lines and words
AdvRest(s) == AdvLazy(AdvLazy(AdvFiles(AdvArith(AdvArith(s, "+"), "-")), LinesKw), WordsKw)

\* the chain of .replace calls that gives the template of the next run
Advance(t) == AdvRest(AdvCounters(t))

(***************************************************************************)
(* Bounds of the model and the inputs it draws                             *)
(***************************************************************************)

\* timers one process creates (setInterval ids are never reused)
MaxId == 2
\* runs of one task between two definitions of it
MaxRuns == 2
\* log entries between two clears
MaxLogs == 1
\* requests in flight at once
MaxInflight == 2
\* fs.readFile callbacks pending at once
MaxPending == 1
MaxOver == 2

MAX_LOG_ENTRIES == 1000

NameA == <<"a">>
NameB == <<"b">>

\* req.body.name of /api/task/add and /api/task/interval/add
RawNames == {NameA, NameB, <<" ", "a">>, <<" ">>}

\* req.body.name of /api/task/run, req.params.name of /api/task/del/:name
\* names posted to /api/task/add
AddNames == RawNames \cup {<<>>}

RunNames == {NameA, NameB, <<" ", "a">>}

\* req.body.time of /api/task/interval/add
RawTimes == {<<"1">>, <<"1", "x">>, <<"0">>, <<"-", "1">>, <<"x">>, NoValue}

\* req.params.iid of /api/task/interval/kill/:iid, parsed
KillIds == 1..(MaxId + 1)

\* getHour() and getDate()
Hours == {<<"0", "9", "_", "3", "0">>}
Dates == {<<"0", "3", "_", "1", "1", "_", "2", "0", "2", "6">>}

IncOne == <<"~", "i", "n", "c", "$", "1", "~">>
IncNine == <<"u", "~", "i", "n", "c", "$", "9", "~">>

\* req.body of /api/task/add: type, data, pType, pData
Bodies ==
  { [type |-> "http", data |-> IncOne, postType |-> <<>>, postData |-> <<>>],
    [type |-> "httppost", data |-> <<"x">>, postType |-> <<"t">>, postData |-> IncNine] }

\* templates with a list of one, two and three tokens
ListOne == <<"~", "{", "a", "}", "~">>
ListTwo == <<"~", "{", "a", " ", "b", "}", "~">>
ListThree == <<"u", "~", "{", "a", " ", "b", " ", "c", "}", "~">>

\* req.body of /api/task/add of tasks with a list
ListBodies ==
  { [type |-> "http", data |-> ListOne, postType |-> <<>>, postData |-> <<>>],
    [type |-> "http", data |-> ListTwo, postType |-> <<>>, postData |-> <<>>],
    [type |-> "httppost", data |-> ListThree, postType |-> <<"t">>,
     postData |-> ListTwo] }

\* req.body of /api/task/add of tasks whose data and pData hold placeholders
TplBodies ==
  {
    \* ~files d 3~ and ~lines f 2~: an index at the number of items
    [type |-> "http", postType |-> <<>>,
     data |-> <<"~", "f", "i", "l", "e", "s", " ", "d", " ", "3", "~">>,
     postData |-> <<"~", "l", "i", "n", "e", "s", " ", "f", " ", "2", "~">>],
    \* ~words f 2~ and ~dec$0~: words at the number of items; a counter at zero
    [type |-> "http", postType |-> <<>>,
     data |-> <<"~", "w", "o", "r", "d", "s", " ", "f", " ", "2", "~">>,
     postData |-> <<"~", "d", "e", "c", "$", "0", "~">>],
    \* ~1 + 2~ and ~1 - 2~: a sum, and a difference that passes below zero
    [type |-> "http", postType |-> <<>>,
     data |-> <<"~", "1", " ", "+", " ", "2", "~">>,
     postData |-> <<"~", "1", " ", "-", " ", "2", "~">>],
    \* ~inc$1~~inc$5~ and ~dec$3~~dec$7~: two counters of one kind
    [type |-> "http", postType |-> <<>>,
     data |-> <<"~", "i", "n", "c", "$", "1", "~", "~", "i", "n", "c", "$", "5", "~">>,
     postData |-> <<"~", "d", "e", "c", "$", "3", "~", "~", "d", "e", "c", "$", "7", "~">>],
    \* ~1 + 2~~3 + 4~ and ~9 - 1~~8 - 1~: two sums, two differences
    [type |-> "http", postType |-> <<>>,
     data |-> <<"~", "1", " ", "+", " ", "2", "~", "~", "3", " ", "+", " ", "4", "~">>,
     postData |-> <<"~", "9", " ", "-", " ", "1", "~", "~", "8", " ", "-", " ", "1", "~">>],
    \* ~files d 0~~files d 1~ and ~lines f 0~~lines f 1~: two files, two lines
    [type |-> "http", postType |-> <<>>,
     data |-> <<"~", "f", "i", "l", "e", "s", " ", "d", " ", "0", "~", "~", "f", "i", "l", "e", "s", " ", "d", " ", "1", "~">>,
     postData |-> <<"~", "l", "i", "n", "e", "s", " ", "f", " ", "0", "~", "~", "l", "i", "n", "e", "s", " ", "f", " ", "1", "~">>],
    \* ~words f 0~~words f 1~ and ~{a b}~~{c d}~: two words, two lists
    [type |-> "http", postType |-> <<>>,
     data |-> <<"~", "w", "o", "r", "d", "s", " ", "f", " ", "0", "~", "~", "w", "o", "r", "d", "s", " ", "f", " ", "1", "~">>,
     postData |-> <<"~", "{", "a", " ", "b", "}", "~", "~", "{", "c", " ", "d", "}", "~">>] }

\* req.body of /api/task/add of tasks whose placeholders name a folder and a
\* file that upload/ does not hold
MissingBodies ==
  { \* ~files e 0~ and ~lines g 0~
    [type |-> "http", postType |-> <<>>,
     data |-> <<"~", "f", "i", "l", "e", "s", " ", "e", " ", "0", "~">>,
     postData |-> <<"~", "l", "i", "n", "e", "s", " ", "g", " ", "0", "~">>],
    \* ~words g 0~
    [type |-> "http", postType |-> <<>>,
     data |-> <<"~", "w", "o", "r", "d", "s", " ", "g", " ", "0", "~">>,
     postData |-> <<>>] }

\* req.body of /api/task/add of tasks of a type that sends no body (http),
\* of types whose request leaves the data out (cclip, and saveclip, a POST),
\* and of a type that the switch of doTask does not know
TypeBodies ==
  { [type |-> "http", data |-> <<"x">>, postType |-> <<>>, postData |-> IncOne],
    [type |-> "cclip", data |-> IncOne, postType |-> <<>>, postData |-> <<"x">>],
    [type |-> "saveclip", data |-> IncOne, postType |-> <<"t">>, postData |-> <<"x">>],
    [type |-> "zzz", data |-> IncNine, postType |-> <<>>, postData |-> IncOne] }

(***************************************************************************)
(* State                                                                   *)
(***************************************************************************)

VARIABLES
  up,           \* the process is running
  gTasks,       \* index.js gTasks: the tasks in memory, in insertion order
  gIntervals,   \* index.js gIntervals: {name, id, time} of every routine
  gTasksLog,    \* index.js gTasksLog: the log in memory
  timers,       \* the runtime's active setInterval timers: {id, name, time}
  nextId,       \* the last timer id the runtime gave out
  inflight,     \* requests dispatched by doTask and not yet answered (a bag)
  pendingIO,    \* callbacks not yet called: fs.readFile of import / reload, setTimeout
  dbTasks,      \* table tasks (primary key name)
  dbIntervals,  \* table intervals (primary key name)
  dbLogs,       \* table logs, in id order
  runs,         \* history: per task name, the data dispatched since it was defined
  last,         \* history: the last operation and its outcome
  wr,           \* a call of withRetries: its locals, and the history of its attempts
  dbDown,       \* the database file cannot be written: every write of dbm throws
  exported      \* upload/export.json, and history: the tasks and routines it was made of

vars == <<up, gTasks, gIntervals, gTasksLog, timers, nextId, inflight, pendingIO,
          dbTasks, dbIntervals, dbLogs, runs, last, wr, dbDown,
          exported>>

\* the variables of the server: everything but the call of withRetries
server == <<up, gTasks, gIntervals, gTasksLog, timers, nextId, inflight, pendingIO,
            dbTasks, dbIntervals, dbLogs, runs, last, dbDown, exported>>

mem == <<gTasks, gIntervals, gTasksLog, timers, nextId>>
db == <<dbTasks, dbIntervals, dbLogs>>

Task(n, b) ==
  [name |-> n, type |-> b.type, data |-> b.data, postType |-> b.postType,
   postData |-> b.postData]

Range(f) == {f[i] : i \in DOMAIN f}

TaskNames == {NameA, NameB}

Ids(ivs) == {ivs[i].id : i \in DOMAIN ivs}
Names(ts) == {ts[i].name : i \in DOMAIN ts}

\* gTasks.some(t => t.name === n)
HasTask(ts, n) == \E i \in DOMAIN ts : ts[i].name = n

\* gTasks.findIndex(ob => ob.name === n), from 1; 0 when there is none
FindIndex(ts, n) ==
  IF HasTask(ts, n)
  THEN CHOOSE i \in DOMAIN ts : ts[i].name = n /\ \A k \in 1..(i - 1) : ts[k].name # n
  ELSE 0

\* an upsert that writes the new data into every task
UpsertMem_All(ts, t) ==
  IF FindIndex(ts, t.name) > 0
  THEN [i \in DOMAIN ts |-> [ts[i] EXCEPT !.data = t.data]]
  ELSE Append(ts, t)

\* an add that keeps the entry a task of the name has already
UpsertMem_Keep(ts, t) == IF FindIndex(ts, t.name) > 0 THEN ts ELSE Append(ts, t)

\* if (idx >= 0) gTasks[idx] = task; else gTasks.push(task)
UpsertMem(ts, t) ==
  LET idx == FindIndex(ts, t.name)
  IN IF idx > 0 THEN [ts EXCEPT ![idx] = t] ELSE Append(ts, t)

(***************************************************************************)
(* db/drizzle.js                                                           *)
(***************************************************************************)

\* INSERT ... ON CONFLICT(name) DO UPDATE
upsertTask(tbl, t) == {r \in tbl : r.name # t.name} \cup {t}

\* a DELETE that matches no row
deleteTask_NoRow(tbl, n) == tbl

deleteTask(tbl, n) == {r \in tbl : r.name # n}

\* an INSERT without the ON CONFLICT clause, the table without its key
addIntervalDef_Insert(tbl, n, ms) == tbl \cup {[name |-> n, timeMs |-> ms]}

\* INSERT ... ON CONFLICT(name) DO UPDATE SET time_ms
addIntervalDef(tbl, n, ms) ==
  {d \in tbl : d.name # n} \cup {[name |-> n, timeMs |-> ms]}

\* a DELETE that matches no row
deleteIntervalDef_NoRow(tbl, n) == tbl

deleteIntervalDef(tbl, n) == {d \in tbl : d.name # n}

addLog(tbl, m) == Append(tbl, m)

\* ORDER BY id ASC LIMIT ?: the oldest rows
getLastLogs_Oldest(tbl, limit) ==
  IF Len(tbl) > limit THEN SubSeq(tbl, 1, limit) ELSE tbl

\* SELECT ... ORDER BY id DESC LIMIT ?, reversed
getLastLogs(tbl, limit) ==
  IF Len(tbl) > limit THEN SubSeq(tbl, Len(tbl) - limit + 1, Len(tbl)) ELSE tbl

\* the byte order of the characters that names are made of
CharCode(c) ==
  CASE c = "\t" -> 9 [] c = " " -> 32 [] c = "a" -> 97 [] c = "b" -> 98
    [] c = "c" -> 99 [] OTHER -> 127

\* ORDER BY name: s sorts before t
RECURSIVE NameLess(_, _)
NameLess(s, t) ==
  IF t = <<>> THEN FALSE
  ELSE IF s = <<>> THEN TRUE
  ELSE IF Head(s) = Head(t) THEN NameLess(Tail(s), Tail(t))
  ELSE CharCode(Head(s)) < CharCode(Head(t))

\* the rows of a table keyed by name, ORDER BY name
RECURSIVE OrderByName(_)
OrderByName(tbl) ==
  IF tbl = {} THEN <<>>
  ELSE LET r == CHOOSE x \in tbl : \A y \in tbl \ {x} : NameLess(x.name, y.name)
       IN <<r>> \o OrderByName(tbl \ {r})

(***************************************************************************)
(* pushLog                                                                 *)
(***************************************************************************)

\* gTasksLog.push(entry) without the splice
PushMem_NoSplice(log, m) == Append(log, m)

\* gTasksLog.push(entry) and the splice past MAX_LOG_ENTRIES
PushMem(log, m) ==
  LET l == Append(log, m)
  IN IF Len(l) > MAX_LOG_ENTRIES
     THEN SubSeq(l, Len(l) - MAX_LOG_ENTRIES + 1, Len(l))
     ELSE l

\* try { dbm.write(...) } catch (_) {}: the table after a write that gives
\* new, old when the write throws
Written(new, old) == IF dbDown THEN old ELSE new

pushLog(m) ==
  /\ dbLogs' = Written(addLog(dbLogs, m), dbLogs)
  /\ gTasksLog' = PushMem(gTasksLog, m)

LogRoom == Len(dbLogs) < MaxLogs /\ Len(gTasksLog) < MaxLogs

(***************************************************************************)
(* History                                                                 *)
(***************************************************************************)

\* the last operation, its outcome, for a crash and the start that follows it
\* the routines the crash stopped, and for an import or a reload the names
\* its response lists as skipped
Last(op, res) == [op |-> op, res |-> res, had |-> {}, skipped |-> <<>>]

\* the name and period of every timer of ts
Had(ts) == {[name |-> t.name, time |-> t.time] : t \in ts}

NoRuns == [n \in TaskNames |-> <<>>]

\* the history of the names in ns starts again
Forget(ns) == [n \in TaskNames |-> IF n \in ns THEN <<>> ELSE runs[n]]

\* a table logs of k rows written by earlier runs of the process
Filled(k) == [i \in 1..k |-> "old"]

\* the numbers of rows the table has when the process starts
LogStarts == {0} \cup ((MAX_LOG_ENTRIES - MaxOver)..MAX_LOG_ENTRIES)

\* room for one more entry, next to MAX_LOG_ENTRIES too
LogRoomAtCap ==
  \/ LogRoom
  \/ /\ Len(dbLogs) >= MAX_LOG_ENTRIES - MaxOver
     /\ Len(dbLogs) < MAX_LOG_ENTRIES + MaxOver

\* a call of pushLog(m) by any of its callers
LogAppend(m) ==
  /\ up
  /\ UNCHANGED up
  /\ LogRoomAtCap
  /\ pushLog(m)
  /\ last' = Last("pushLog", "ok")
  /\ UNCHANGED <<gTasks, gIntervals, timers, nextId, inflight, pendingIO,
                 dbTasks, dbIntervals, runs>>

(***************************************************************************)
(* Tasks                                                                   *)
(***************************************************************************)

\* POST /api/task/add
AddTask(raw, body) ==
  /\ up
  /\ UNCHANGED up
  /\ LET tName == Trim(StringOrEmpty(raw))
         task  == Task(tName, body)
     IN IF tName = <<>>
        THEN /\ last' = Last("addTask", "rejected")
             /\ UNCHANGED <<mem, db, inflight, pendingIO, runs>>
        ELSE IF dbDown
        THEN \* dbm.upsertTask throws: catch (e), status 500
             /\ last' = Last("addTask", "saveError")
             /\ UNCHANGED <<mem, db, inflight, pendingIO, runs>>
        ELSE /\ dbTasks' = upsertTask(dbTasks, task)
             /\ gTasks' = UpsertMem(gTasks, task)
             /\ runs' = Forget({tName})
             /\ last' = Last("addTask", "ok")
             /\ UNCHANGED <<gIntervals, gTasksLog, timers, nextId, inflight,
                            pendingIO, dbIntervals, dbLogs>>

\* a delete that leaves the timers of the task running
DeleteTask_KeepsTimers(tName) ==
  /\ up
  /\ UNCHANGED up
  /\ LET affected == SelectSeq(gIntervals, LAMBDA inte : inte.name = tName)
     IN /\ dbTasks' = Written(deleteTask(dbTasks, tName), dbTasks)
        /\ gTasks' = SelectSeq(gTasks, LAMBDA ob : ob.name # tName)
        /\ dbIntervals' = IF affected = <<>> THEN dbIntervals
                          ELSE Written(deleteIntervalDef(dbIntervals, tName), dbIntervals)
        /\ timers' = timers
        /\ gIntervals' = SelectSeq(gIntervals, LAMBDA inte : inte.name # tName)
        /\ runs' = Forget({tName})
        /\ last' = Last("delTask", IF affected = <<>> THEN "ok" ELSE "cascade")
        /\ UNCHANGED <<gTasksLog, nextId, inflight, pendingIO, dbLogs>>

\* GET /api/task/del/:name
DeleteTask(tName) ==
  /\ up
  /\ UNCHANGED up
  /\ LET affected == SelectSeq(gIntervals, LAMBDA inte : inte.name = tName)
     IN /\ dbTasks' = Written(deleteTask(dbTasks, tName), dbTasks)
        /\ gTasks' = SelectSeq(gTasks, LAMBDA ob : ob.name # tName)
        /\ dbIntervals' = IF affected = <<>> THEN dbIntervals
                          ELSE Written(deleteIntervalDef(dbIntervals, tName), dbIntervals)
        /\ timers' = {t \in timers : t.id \notin Ids(affected)}
        /\ gIntervals' = SelectSeq(gIntervals, LAMBDA inte : inte.name # tName)
        /\ runs' = Forget({tName})
        /\ last' = Last("delTask", IF affected = <<>> THEN "ok" ELSE "cascade")
        /\ UNCHANGED <<gTasksLog, nextId, inflight, pendingIO, dbLogs>>

(***************************************************************************)
(* Routines                                                                *)
(***************************************************************************)

\* POST /api/task/interval/add
AddRoutine(raw, rawTime) ==
  /\ up
  /\ UNCHANGED up
  /\ LET intTime == ParseInt(rawTime)
         name    == Trim(StringOrEmpty(raw))
     IN IF name = <<>> \/ intTime.nan \/ intTime.val <= 0 \/ ~HasTask(gTasks, name)
        THEN /\ last' = Last("addRoutine", "rejected")
             /\ UNCHANGED <<mem, db, inflight, pendingIO, runs>>
        ELSE /\ nextId < MaxId
             /\ dbIntervals' = Written(addIntervalDef(dbIntervals, name, intTime.val),
                                        dbIntervals)
             /\ nextId' = nextId + 1
             /\ timers' = timers \cup
                          {[id |-> nextId + 1, name |-> name, time |-> intTime.val]}
             /\ gIntervals' = Append(gIntervals,
                          [name |-> name, id |-> nextId + 1, time |-> intTime.val])
             /\ last' = Last("addRoutine", "ok")
             /\ UNCHANGED <<gTasks, gTasksLog, inflight, pendingIO, dbTasks,
                            dbLogs, runs>>

\* a kill that deletes the definitions whether or not it finds the routine
KillRoutine_Unchecked(iid) ==
  /\ up
  /\ UNCHANGED up
  /\ dbIntervals' = {}
  /\ timers' = {t \in timers : t.id # iid}
  /\ gIntervals' = SelectSeq(gIntervals, LAMBDA inte : inte.id # iid)
  /\ last' = Last("kill", IF iid \in Ids(gIntervals) THEN "ok" ELSE "absent")
  /\ UNCHANGED <<gTasks, gTasksLog, nextId, inflight, pendingIO, dbTasks,
                 dbLogs, runs>>

\* a kill that stops every timer of the name of the routine
KillRoutine_ByName(iid) ==
  /\ up
  /\ UNCHANGED up
  /\ LET found == SelectSeq(gIntervals, LAMBDA inte : inte.id = iid)
         gone  == IF found = <<>> THEN {iid}
                  ELSE {t.id : t \in {x \in timers : x.name = found[1].name}}
     IN /\ dbIntervals' = IF found # <<>>
                          THEN Written(deleteIntervalDef(dbIntervals, found[1].name),
                                       dbIntervals)
                          ELSE dbIntervals
        /\ timers' = {t \in timers : t.id \notin gone}
        /\ gIntervals' = SelectSeq(gIntervals, LAMBDA inte : inte.id \notin gone)
        /\ last' = Last("kill", IF found # <<>> THEN "ok" ELSE "absent")
        /\ UNCHANGED <<gTasks, gTasksLog, nextId, inflight, pendingIO, dbTasks,
                       dbLogs, runs>>

\* GET /api/task/interval/kill/:iid
KillRoutine(iid) ==
  /\ up
  /\ UNCHANGED up
  /\ LET found == SelectSeq(gIntervals, LAMBDA inte : inte.id = iid)
     IN /\ dbIntervals' = IF found # <<>>
                          THEN Written(deleteIntervalDef(dbIntervals, found[1].name),
                                       dbIntervals)
                          ELSE dbIntervals
        /\ timers' = {t \in timers : t.id # iid}
        /\ gIntervals' = SelectSeq(gIntervals, LAMBDA inte : inte.id # iid)
        /\ last' = Last("kill", IF found # <<>> THEN "ok" ELSE "absent")
        /\ UNCHANGED <<gTasks, gTasksLog, nextId, inflight, pendingIO, dbTasks,
                       dbLogs, runs>>

\* clearAllIntervals
clearAllIntervals ==
  /\ timers' = {t \in timers : t.id \notin Ids(gIntervals)}
  /\ gIntervals' = <<>>

\* a clearing of table tasks alone
clearAllData_Tasks ==
  /\ dbTasks' = Written({}, dbTasks)
  /\ UNCHANGED <<dbIntervals, dbLogs>>

\* clearAllData
clearAllData ==
  /\ dbTasks' = Written({}, dbTasks)
  /\ dbIntervals' = Written({}, dbIntervals)
  /\ dbLogs' = Written(<<>>, dbLogs)

\* GET /api/restart
Restart ==
  /\ up
  /\ UNCHANGED up
  /\ clearAllIntervals
  /\ clearAllData
  /\ gTasks' = <<>>
  /\ gTasksLog' = <<>>
  /\ runs' = NoRuns
  /\ last' = Last("restart", "ok")
  /\ UNCHANGED <<nextId, inflight, pendingIO>>

\* GET /api/task/log/clear
LogClear ==
  /\ up
  /\ UNCHANGED up
  /\ dbLogs' = Written(<<>>, dbLogs)
  /\ gTasksLog' = <<>>
  /\ last' = Last("logClear", "ok")
  /\ UNCHANGED <<gTasks, gIntervals, timers, nextId, inflight, pendingIO, dbTasks,
                 dbIntervals, runs>>

(***************************************************************************)
(* doTask                                                                  *)
(***************************************************************************)

\* the switch on a.type: the path the data is appended to (reqd without
\* http://localhost:1337), whether the data is appended, and isPost
RequestFor(type) ==
  CASE type = "http"        -> [path |-> "/api/httpp/", arg |-> TRUE, post |-> FALSE]
    [] type = "httppost"    -> [path |-> "/api/httpp/", arg |-> TRUE, post |-> TRUE]
    [] type = "https"       -> [path |-> "/api/httpps/", arg |-> TRUE, post |-> FALSE]
    [] type = "httpspost"   -> [path |-> "/api/httpps/", arg |-> TRUE, post |-> TRUE]
    [] type = "httptxt"     -> [path |-> "/api/txt/httpp/", arg |-> TRUE, post |-> FALSE]
    [] type = "httpstxt"    -> [path |-> "/api/txt/httpps/", arg |-> TRUE, post |-> FALSE]
    [] type = "scrapurl"    -> [path |-> "/api/scraper/links/?link=", arg |-> TRUE, post |-> FALSE]
    [] type = "scrapimg"    -> [path |-> "/api/scraper/imgs/?link=", arg |-> TRUE, post |-> FALSE]
    [] type = "cheerioc"    -> [path |-> "/api/scraper/cheeriohtml/?link=", arg |-> TRUE, post |-> FALSE]
    [] type = "scraprss"    -> [path |-> "/api/scraper/rss?link=", arg |-> TRUE, post |-> FALSE]
    [] type = "cclip"       -> [path |-> "/api/clip/erase", arg |-> FALSE, post |-> FALSE]
    [] type = "delfile"     -> [path |-> "/api/files/del?path=", arg |-> TRUE, post |-> FALSE]
    [] type = "mvfile"      -> [path |-> "/api/files/mv", arg |-> TRUE, post |-> FALSE]
    [] type = "uploadlink"  -> [path |-> "/api/uploadLink", arg |-> FALSE, post |-> TRUE]
    [] type = "saveclip"    -> [path |-> "/api/clip/save", arg |-> FALSE, post |-> TRUE]
    [] type = "logfile"     -> [path |-> "/api/task/log/toFile?name=", arg |-> TRUE, post |-> FALSE]
    [] type = "cfgimport"   -> [path |-> "/api/cfg/import?path=", arg |-> TRUE, post |-> FALSE]
    [] type = "cfgexport"   -> [path |-> "/api/cfg/export?name=", arg |-> TRUE, post |-> FALSE]
    [] type = "consoleget"  -> [path |-> "/api/console?text=", arg |-> TRUE, post |-> FALSE]
    [] type = "consolepost" -> [path |-> "/api/console", arg |-> FALSE, post |-> TRUE]
    [] type = "sendfile"    -> [path |-> "/api/files/send", arg |-> TRUE, post |-> FALSE]
    [] type = "reload"      -> [path |-> "/api/reload?cfg=", arg |-> TRUE, post |-> FALSE]
    [] OTHER                -> [path |-> "example.com", arg |-> FALSE, post |-> FALSE]

\* a run that leaves the templates as they are
Advanced_None(a) == a

\* a run that advances only what the request of the type sends
Advanced_Sent(a) ==
  [a EXCEPT !.data = IF RequestFor(a.type).arg THEN Advance(a.data) ELSE a.data,
            !.postData = IF RequestFor(a.type).post THEN Advance(a.postData)
                         ELSE a.postData]

\* a.data and a.postData after "advance dynamic patterns for next run"
Advanced(a) ==
  [a EXCEPT !.data = Advance(a.data), !.postData = Advance(a.postData)]

\* a catch block that logs nothing
RunFailed_Silent(op, res, m) ==
  /\ last' = Last(op, res)
  /\ UNCHANGED <<gIntervals, gTasksLog, timers, nextId, db>>

\* pushLog of an error: the run of op ends here
RunFailed(op, res, m) ==
  /\ LogRoom
  /\ pushLog(m)
  /\ last' = Last(op, res)
  /\ UNCHANGED <<gIntervals, timers, nextId, dbTasks, dbIntervals>>

\* what a run of task a sends: the values of data and postData, the request of
\* a.type, and whether http.request accepts its headers (a content-type that
\* is undefined makes it throw)
RunRecord(a, hour, date) ==
  [data |-> Evaluate(a.data, hour, date),
   postData |-> Evaluate(a.postData, hour, date),
   path |-> RequestFor(a.type).path,
   arg |-> RequestFor(a.type).arg,
   post |-> RequestFor(a.type).post,
   sent |-> ~(RequestFor(a.type).post /\ a.postType = NoValue)]

\* the templates of gTasks[idx] advance, then the request is built and sent
Dispatch(tName, idx, run, op) ==
  /\ Len(runs[tName]) < MaxRuns
  /\ gTasks' = [gTasks EXCEPT ![idx] = Advanced(@)]
  /\ runs' = [runs EXCEPT ![tName] = Append(@, run)]
  /\ IF run.sent
     THEN \* http.request / http.get: the request is on its way
          /\ BagCardinality(inflight) < MaxInflight
          /\ inflight' = inflight (+) SetToBag({[name |-> tName, post |-> run.post]})
          /\ last' = Last(op, "dispatched")
          /\ UNCHANGED <<gIntervals, gTasksLog, timers, nextId, db>>
     ELSE /\ RunFailed(op, "buildError", "doTaskError")
          /\ UNCHANGED inflight

\* the body of doTask for the task at gTasks[idx]; a.data.replace and
\* a.postData.replace throw a TypeError when the field is not a string
RunTask(tName, idx, hour, date, op) ==
  IF gTasks[idx].data = NoValue \/ gTasks[idx].postData = NoValue
  THEN /\ RunFailed(op, "expandError", "doTaskError")
       /\ UNCHANGED <<gTasks, inflight, runs>>
  ELSE Dispatch(tName, idx, RunRecord(gTasks[idx], hour, date), op)

\* a doTask that says nothing of a task it does not find
doTask_Quiet(tName, hour, date, op) ==
  IF ~HasTask(gTasks, tName)
  THEN /\ last' = Last(op, "notFound")
       /\ UNCHANGED <<mem, db, inflight, runs>>
  ELSE RunTask(tName, FindIndex(gTasks, tName), hour, date, op)

\* doTask({body: {name: tName}}), called by op (a tick of a timer, or run-now)
doTask(tName, hour, date, op) ==
  IF ~HasTask(gTasks, tName)
  THEN \* Task not found
       /\ RunFailed(op, "notFound", "notFound")
       /\ UNCHANGED <<gTasks, inflight, runs>>
  ELSE RunTask(tName, FindIndex(gTasks, tName), hour, date, op)

\* the callback of setInterval
Tick(t, hour, date) ==
  /\ up
  /\ UNCHANGED up
  /\ t \in timers
  /\ doTask(t.name, hour, date, "tick")
  /\ UNCHANGED pendingIO

\* POST /api/task/run
RunNow(tName, hour, date) ==
  /\ up
  /\ UNCHANGED up
  /\ doTask(tName, hour, date, "runNow")
  /\ UNCHANGED pendingIO

\* POST /api/task/time/run: setTimeout(() => { doTask(req); }, tTime)
RunLater(tName) ==
  /\ up
  /\ UNCHANGED up
  /\ Cardinality(pendingIO) < MaxPending
  /\ pendingIO' = pendingIO \cup {[op |-> "delayed", cfg |-> tName]}
  /\ last' = Last("runLater", "ok")
  /\ UNCHANGED <<mem, db, inflight, runs>>

\* the callback of that setTimeout
DelayedRun(p, hour, date) ==
  /\ up
  /\ UNCHANGED up
  /\ p \in pendingIO
  /\ p.op = "delayed"
  /\ pendingIO' = pendingIO \ {p}
  /\ doTask(p.cfg, hour, date, "delayed")

\* response.on('end'): the body is logged
RequestEnd(r) ==
  /\ up
  /\ UNCHANGED up
  /\ r \in BagToSet(inflight)
  /\ LogRoom
  /\ inflight' = inflight (-) SetToBag({r})
  /\ pushLog("response")
  /\ last' = Last("requestEnd", "ok")
  /\ UNCHANGED <<gTasks, gIntervals, timers, nextId, pendingIO, dbTasks,
                 dbIntervals, runs>>

\* preq.on('error') / creq.on('error'), the timeout included
RequestError(r) ==
  /\ up
  /\ UNCHANGED up
  /\ r \in BagToSet(inflight)
  /\ LogRoom
  /\ inflight' = inflight (-) SetToBag({r})
  /\ pushLog(IF r.post THEN "postError" ELSE "getError")
  /\ last' = Last("requestError", "ok")
  /\ UNCHANGED <<gTasks, gIntervals, timers, nextId, pendingIO, dbTasks,
                 dbIntervals, runs>>

\* the connection closes after the response has begun and before its end:
\* the response emits 'aborted' and 'close' and never 'end', the request
\* emits no 'error'; doTask listens to 'data' and 'end' of the response and
\* to 'error' of the request only
RequestAborted(r) ==
  /\ up
  /\ UNCHANGED up
  /\ r \in BagToSet(inflight)
  /\ inflight' = inflight (-) SetToBag({r})
  /\ last' = Last("requestAborted", "ok")
  /\ UNCHANGED <<mem, pendingIO, db, runs>>

(***************************************************************************)
(* The process: a crash, and the start of index.js                         *)
(***************************************************************************)

Down ==
  /\ up' = FALSE
  /\ gTasks' = <<>>
  /\ gIntervals' = <<>>
  /\ gTasksLog' = <<>>
  /\ timers' = {}
  /\ nextId' = 0
  /\ inflight' = EmptyBag
  /\ pendingIO' = {}

\* the process dies between two handlers; the database file stays
Crash ==
  /\ up
  /\ Down
  /\ last' = [Last("crash", "ok") EXCEPT !.had = Had(timers)]
  /\ UNCHANGED <<db, runs>>

\* the process dies in GET /api/task/del/:name after dbm.deleteTask and before
\* the interval definitions are deleted
CrashInDeleteTask(tName) ==
  /\ up
  /\ \E d \in dbIntervals : d.name = tName
  /\ Down
  /\ dbTasks' = deleteTask(dbTasks, tName)
  /\ runs' = Forget({tName})
  /\ last' = [Last("crash", "inDelete") EXCEPT
                !.had = Had({t \in timers : t.name # tName})]
  /\ UNCHANGED <<dbIntervals, dbLogs>>

\* getAllTasks without the filter
Hydrated_All(tbl) == OrderByName(tbl)

\* dbm.getAllTasks().filter(t => String(t.name || '').trim().length > 0)
Hydrated(tbl) ==
  SelectSeq(OrderByName(tbl), LAMBDA t : Trim(StringOrEmpty(t.name)) # <<>>)

\* a forEach that stops after its first definition
Rehydrate_First(kept) ==
  [i \in 1..(IF kept = <<>> THEN 0 ELSE 1) |->
     [name |-> kept[i].name, id |-> i, time |-> kept[i].timeMs]]

\* defs.forEach: a setInterval and a registry entry for each definition kept,
\* in the order of getAllIntervalDefs; the first timer of a process has id 1
Rehydrate(kept) ==
  [i \in 1..Len(kept) |-> [name |-> kept[i].name, id |-> i, time |-> kept[i].timeMs]]

\* "Initialize SQLite and hydrate in-memory caches and intervals"
Startup ==
  /\ ~up
  /\ LET hydr == Hydrated(dbTasks)
         kept == SelectSeq(OrderByName(dbIntervals), LAMBDA d : HasTask(hydr, d.name))
         regs == Rehydrate(kept)
     IN /\ up' = TRUE
        /\ gTasks' = hydr
        /\ gTasksLog' = getLastLogs(dbLogs, MAX_LOG_ENTRIES)
        /\ dbIntervals' = Written({d \in dbIntervals : HasTask(hydr, d.name)}, dbIntervals)
        /\ gIntervals' = regs
        /\ timers' = {[id |-> regs[i].id, name |-> regs[i].name, time |-> regs[i].time] :
                        i \in DOMAIN regs}
        /\ nextId' = Len(regs)
        /\ last' = [Last("startup", IF Len(kept) < Cardinality(dbIntervals)
                                     THEN "orphan" ELSE "ok")
                      EXCEPT !.had = last.had]
        /\ UNCHANGED <<inflight, pendingIO, dbTasks, dbLogs, runs>>

(***************************************************************************)
(* Configuration snapshots: /api/cfg/import and /api/reload                *)
(***************************************************************************)

TaskEntry(n, type, data, postType, postData) ==
  [kind |-> "task",
   data |-> [name |-> n, type |-> type, data |-> data, postType |-> postType,
             postData |-> postData]]

RoutineEntry(n, time) == [kind |-> "routine", data |-> [name |-> n, time |-> time]]

\* req.query.path of /api/cfg/import and req.query.cfg of /api/reload
ImportFiles == {"order.json"}
ReloadFiles == {"dup.json", "bad.json"}
CfgFiles == ImportFiles \cup ReloadFiles \cup {"zero.json"}
RunCfgFiles == {"run.json"}
BlankFiles == {"blank.json"}

\* upload/export.json before the first export: there is no such file
NoExport == [count |-> 0, entries |-> <<>>, tasks |-> <<>>, routines |-> <<>>]

\* an export that leaves the routines out
ExportEntries_Tasks(ts, ivs) == [i \in 1..Len(ts) |-> [kind |-> "task", data |-> ts[i]]]

\* toJson of /api/cfg/export: an entry of type task for every task, then an
\* entry of type routine, with name and time, for every routine
ExportEntries(ts, ivs) ==
  [i \in 1..Len(ts) |-> [kind |-> "task", data |-> ts[i]]]
  \o [i \in 1..Len(ivs) |-> RoutineEntry(ivs[i].name, ivs[i].time)]

\* GET /api/cfg/export?name=export
ExportCfg ==
  /\ up
  /\ UNCHANGED up
  /\ exported' = [count |-> exported.count + 1, entries |-> ExportEntries(gTasks, gIntervals),
                  tasks |-> gTasks, routines |-> gIntervals]
  /\ last' = Last("export", "ok")
  /\ UNCHANGED <<mem, db, inflight, pendingIO, runs>>

\* fs.readFile and JSON.parse of a file of upload/
ReadCfg(file) ==
  CASE file = "dup.json" ->
         [status |-> "ok",
          entries |-> << TaskEntry(NameA, "http", IncNine, <<>>, <<>>),
                         TaskEntry(NameA, "http", IncOne, <<>>, NoValue),
                         RoutineEntry(NameA, 1) >>]
    [] file = "order.json" ->
         [status |-> "ok",
          entries |-> << RoutineEntry(NameB, 2),
                         TaskEntry(<<" ", "b">>, "httppost", IncOne, NoValue, <<>>),
                         RoutineEntry(<<"c">>, 1) >>]
    [] file = "zero.json" ->
         [status |-> "ok",
          entries |-> << TaskEntry(NameA, "http", IncOne, <<>>, <<>>),
                         RoutineEntry(NameA, 0) >>]
    [] file = "blank.json" ->
         [status |-> "ok",
          entries |-> << TaskEntry(<<" ">>, "http", IncOne, <<>>, <<>>),
                         TaskEntry(NoValue, "http", IncOne, <<>>, <<>>),
                         TaskEntry(<<" ", "b">>, "http", IncOne, <<>>, <<>>),
                         RoutineEntry(<<" ">>, 1) >>]
    [] file = "run.json" ->
         [status |-> "ok",
          entries |-> << TaskEntry(NameA, "http", IncOne, <<>>, NoValue),
                         TaskEntry(NameB, "httppost", IncOne, NoValue, <<>>),
                         RoutineEntry(NameA, 1),
                         RoutineEntry(NameB, 2) >>]
    [] file = "export.json" /\ exported.count > 0 ->
         [status |-> "ok", entries |-> exported.entries]
    [] file = "broken.json" -> [status |-> "invalid", entries |-> <<>>]
    [] file = "nodata.json" ->
         [status |-> "ok",
          entries |-> << TaskEntry(NameB, "http", IncOne, <<>>, <<>>),
                         [kind |-> "task"],
                         RoutineEntry(NameB, 1) >>]
    [] OTHER -> [status |-> "unreadable", entries |-> <<>>]

\* parsed.forEach: i.data.name of an entry of type task or routine that has no
\* data is a TypeError, thrown out of the callback of fs.readFile
CollectThrows(entries) ==
  \E i \in DOMAIN entries :
    entries[i].kind \in {"task", "routine"} /\ "data" \notin DOMAIN entries[i]

\* the outcome of a snapshot that is not applied: the file cannot be read
\* (400), it is not JSON (400), or the collecting of its entries has thrown
CfgError(cfg) ==
  CASE cfg.status = "unreadable" -> "readError"
    [] cfg.status = "invalid" -> "invalid"
    [] OTHER -> "thrown"

\* parsed.forEach: the entries of one kind, in file order
EntriesOf(entries, kind) ==
  LET sel == SelectSeq(entries, LAMBDA i : i.kind = kind)
  IN [k \in 1..Len(sel) |-> sel[k].data]

\* tasksToUpsert.forEach: [mem, tbl] after the tasks ts; a reload pushes, an
\* import replaces the entry of the same name
RECURSIVE ApplyTasks(_, _, _, _)
ApplyTasks(ts, memv, tbl, push) ==
  IF ts = <<>> THEN [mem |-> memv, tbl |-> tbl]
  ELSE LET nm == Trim(StringOrEmpty(Head(ts).name))
           t  == [Head(ts) EXCEPT !.name = nm]
       IN IF nm = <<>> THEN ApplyTasks(Tail(ts), memv, tbl, push)
          ELSE ApplyTasks(Tail(ts),
                          IF push THEN Append(memv, t) ELSE UpsertMem(memv, t),
                          upsertTask(tbl, t), push)

\* routinesToAdd.forEach: the registry, the table, the timers, the last id and
\* the skipped names after the routines rs, for the tasks memv
RECURSIVE ApplyRoutines(_, _, _)
ApplyRoutines(rs, memv, acc) ==
  IF rs = <<>> THEN acc
  ELSE LET r == Head(rs)
       IN IF ~HasTask(memv, r.name)
          THEN ApplyRoutines(Tail(rs), memv,
                             [acc EXCEPT !.skipped = Append(@, r.name)])
          ELSE ApplyRoutines(Tail(rs), memv,
                 [acc EXCEPT
                    !.tbl = addIntervalDef(@, r.name, r.time),
                    !.next = @ + 1,
                    !.timers = @ \cup {[id |-> acc.next + 1, name |-> r.name,
                                        time |-> r.time]},
                    !.ivs = Append(@, [name |-> r.name, id |-> acc.next + 1,
                                       time |-> r.time])])

\* the names a snapshot's task entries define
Defined(ts) ==
  {Trim(StringOrEmpty(ts[i].name)) : i \in DOMAIN ts} \cap TaskNames

\* the routines are looked up in the tasks held before the snapshot's tasks
ApplyCfg_RoutinesFirst(p, push) ==
  LET cfg == ReadCfg(p.cfg)
  IN IF cfg.status # "ok" \/ CollectThrows(cfg.entries)
     THEN /\ last' = Last(p.op, CfgError(cfg))
          /\ UNCHANGED <<mem, db, runs>>
     ELSE LET ts == EntriesOf(cfg.entries, "task")
              rs == EntriesOf(cfg.entries, "routine")
              t  == ApplyTasks(ts, gTasks, dbTasks, push)
              r  == ApplyRoutines(rs, gTasks,
                                  [ivs |-> gIntervals, tbl |-> dbIntervals,
                                   timers |-> timers, next |-> nextId,
                                   skipped |-> <<>>])
          IN /\ r.next <= MaxId
             /\ gTasks' = t.mem
             /\ dbTasks' = Written(t.tbl, dbTasks)
             /\ gIntervals' = r.ivs
             /\ dbIntervals' = Written(r.tbl, dbIntervals)
             /\ timers' = r.timers
             /\ nextId' = r.next
             /\ runs' = Forget(Defined(ts))
             /\ last' = [Last(p.op, IF r.skipped = <<>> THEN "ok" ELSE "skipped")
                           EXCEPT !.skipped = r.skipped]
             /\ UNCHANGED <<gTasksLog, dbLogs>>

\* a callback that applies the entries that have data when others have none
ApplyCfg_SkipBad(p, push) ==
  LET cfg == ReadCfg(p.cfg)
  IN IF cfg.status # "ok"
     THEN /\ last' = Last(p.op, CfgError(cfg))
          /\ UNCHANGED <<mem, db, runs>>
     ELSE LET good == SelectSeq(cfg.entries, LAMBDA e : "data" \in DOMAIN e)
              ts == EntriesOf(good, "task")
              rs == EntriesOf(good, "routine")
              t  == ApplyTasks(ts, gTasks, dbTasks, push)
              r  == ApplyRoutines(rs, t.mem,
                                  [ivs |-> gIntervals, tbl |-> dbIntervals,
                                   timers |-> timers, next |-> nextId,
                                   skipped |-> <<>>])
          IN /\ r.next <= MaxId
             /\ gTasks' = t.mem
             /\ dbTasks' = Written(t.tbl, dbTasks)
             /\ gIntervals' = r.ivs
             /\ dbIntervals' = Written(r.tbl, dbIntervals)
             /\ timers' = r.timers
             /\ nextId' = r.next
             /\ runs' = Forget(Defined(ts))
             /\ last' = [Last(p.op, IF CollectThrows(cfg.entries) THEN "thrown"
                                    ELSE IF r.skipped = <<>> THEN "ok" ELSE "skipped")
                           EXCEPT !.skipped = r.skipped]
             /\ UNCHANGED <<gTasksLog, dbLogs>>

\* the callback of fs.readFile in /api/cfg/import (push = FALSE) and in
\* /api/reload (push = TRUE)
ApplyCfg(p, push) ==
  LET cfg == ReadCfg(p.cfg)
  IN IF cfg.status # "ok" \/ CollectThrows(cfg.entries)
     THEN /\ last' = Last(p.op, CfgError(cfg))
          /\ UNCHANGED <<mem, db, runs>>
     ELSE LET ts == EntriesOf(cfg.entries, "task")
              rs == EntriesOf(cfg.entries, "routine")
              t  == ApplyTasks(ts, gTasks, dbTasks, push)
              r  == ApplyRoutines(rs, t.mem,
                                  [ivs |-> gIntervals, tbl |-> dbIntervals,
                                   timers |-> timers, next |-> nextId,
                                   skipped |-> <<>>])
          IN /\ r.next <= MaxId
             /\ gTasks' = t.mem
             /\ dbTasks' = Written(t.tbl, dbTasks)
             /\ gIntervals' = r.ivs
             /\ dbIntervals' = Written(r.tbl, dbIntervals)
             /\ timers' = r.timers
             /\ nextId' = r.next
             /\ runs' = Forget(Defined(ts))
             /\ last' = [Last(p.op, IF r.skipped = <<>> THEN "ok" ELSE "skipped")
                           EXCEPT !.skipped = r.skipped]
             /\ UNCHANGED <<gTasksLog, dbLogs>>

\* GET /api/cfg/import: the file is read, nothing else happens yet
ImportStart(file) ==
  /\ up
  /\ UNCHANGED up
  /\ Cardinality(pendingIO) < MaxPending
  /\ pendingIO' = pendingIO \cup {[op |-> "import", cfg |-> file]}
  /\ last' = Last("importStart", "ok")
  /\ UNCHANGED <<mem, db, inflight, runs>>

\* GET /api/reload: everything is cleared, then the file is read
ReloadStart(file) ==
  /\ up
  /\ UNCHANGED up
  /\ Cardinality(pendingIO) < MaxPending
  /\ clearAllIntervals
  /\ gTasks' = <<>>
  /\ gTasksLog' = <<>>
  /\ clearAllData
  /\ pendingIO' = pendingIO \cup {[op |-> "reload", cfg |-> file]}
  /\ runs' = NoRuns
  /\ last' = Last("reloadStart", "ok")
  /\ UNCHANGED <<nextId, inflight>>

\* the callback of fs.readFile
FileRead(p) ==
  /\ up
  /\ UNCHANGED up
  /\ p \in pendingIO
  /\ p.op \in {"import", "reload"}
  /\ pendingIO' = pendingIO \ {p}
  /\ ApplyCfg(p, p.op = "reload")
  /\ UNCHANGED inflight

(***************************************************************************)
(* The database file: from some moment on its writes throw (the disk is    *)
(* full, the file is locked or read-only), until they succeed again         *)
(***************************************************************************)

DbBreaks ==
  /\ ~dbDown
  /\ dbDown' = TRUE
  /\ last' = Last("dbBreaks", "ok")
  /\ UNCHANGED <<up, mem, db, inflight, pendingIO, runs, wr, exported>>

DbRecovers ==
  /\ dbDown
  /\ dbDown' = FALSE
  /\ last' = Last("dbRecovers", "ok")
  /\ UNCHANGED <<up, mem, db, inflight, pendingIO, runs, wr, exported>>

(***************************************************************************)
(* withRetries                                                             *)
(***************************************************************************)

RETRY_BACKOFFS_MS == <<500, 1500, 3500>>

\* the backoffsMs of a call
Backoffs == {<<>>, <<500>>, RETRY_BACKOFFS_MS}

\* what httpRequestWithTimeout settles with: a response (its statusCode), or
\* an error (its code, "" when it has none)
Response(statusCode) == [kind |-> "response", statusCode |-> statusCode, code |-> ""]
Failure(code) == [kind |-> "error", statusCode |-> 0, code |-> code]

Outcomes ==
  {Response(c) : c \in {0, 200, 302, 404, 408, 429, 500, 503}}
    \cup {Failure(c) : c \in {"ETIMEDOUT", "ENOTFOUND", "EACCES", ""}}

isTransientStatus(statusCode) ==
  statusCode = 408 \/ statusCode = 429 \/ statusCode >= 500

\* an error is retried whatever its code
isTransientError_Any(err) == TRUE

isTransientError(err) ==
  IF err.code = "" THEN FALSE
  ELSE err.code \in {"ETIMEDOUT", "ECONNRESET", "EAI_AGAIN", "ECONNREFUSED",
                     "ENETUNREACH", "EHOSTUNREACH", "ENOTFOUND", "EPIPE"}

\* the loop test with <= for <
InLoop_OneMore(attempt, backoffsMs) == attempt <= Len(backoffsMs)

\* while (attempt < backoffsMs.length)
InLoop(attempt, backoffsMs) == attempt < Len(backoffsMs)

\* the first delay at every retry
NextDelay_First(backoffsMs, attempt) == backoffsMs[1]

\* backoffsMs[attempt++], attempt counted from 0
NextDelay(backoffsMs, attempt) == backoffsMs[attempt + 1]

\* no call of withRetries
WrIdle ==
  [pc |-> "idle", backoffsMs |-> <<>>, attempt |-> 0, made |-> <<>>,
   slept |-> <<>>, result |-> Response(0)]

\* withRetries(opts, backoffsMs): attempt = 0, and the first request is sent
WrCall(backoffsMs) ==
  /\ wr.pc \in {"idle", "returned", "thrown"}
  /\ wr' = [WrIdle EXCEPT !.pc = "request", !.backoffsMs = backoffsMs]
  /\ UNCHANGED server

\* await httpRequestWithTimeout(opts) settles with o: in the loop a transient
\* status or error leads to the sleep, anything else is returned or thrown;
\* after the loop the promise of the last attempt is the result
WrSettle(o) ==
  /\ wr.pc = "request"
  /\ wr' = [wr EXCEPT
              !.made = Append(@, o),
              !.result = o,
              !.pc = IF InLoop(wr.attempt, wr.backoffsMs)
                        /\ (IF o.kind = "response"
                            THEN isTransientStatus(o.statusCode)
                            ELSE isTransientError(o))
                     THEN "sleep"
                     ELSE IF o.kind = "response" THEN "returned" ELSE "thrown"]
  /\ UNCHANGED server

\* await sleep(backoffsMs[attempt++]); continue
WrSleep ==
  /\ wr.pc = "sleep"
  /\ wr' = [wr EXCEPT
              !.slept = Append(@, NextDelay(wr.backoffsMs, wr.attempt)),
              !.attempt = @ + 1,
              !.pc = "request"]
  /\ UNCHANGED server

(***************************************************************************)
(* Specification                                                           *)
(***************************************************************************)

Init ==
  /\ up = FALSE
  /\ gTasks = <<>>
  /\ gIntervals = <<>>
  /\ gTasksLog = <<>>
  /\ timers = {}
  /\ nextId = 0
  /\ inflight = EmptyBag
  /\ pendingIO = {}
  /\ dbTasks = {}
  /\ dbIntervals = {}
  /\ dbLogs = <<>>
  /\ runs = NoRuns
  /\ last = Last("init", "ok")
  /\ wr = WrIdle
  /\ dbDown = FALSE
  /\ exported = NoExport

\* the store and the scheduler: every handler that defines or removes tasks and
\* routines, a crash, and the start of the process
Next ==
  /\ \/ Startup
     \/ Crash
     \/ \E n \in TaskNames : CrashInDeleteTask(n)
     \/ \E n \in AddNames, b \in Bodies : AddTask(n, b)
     \/ \E n \in RunNames : DeleteTask(n)
     \/ \E n \in RawNames, t \in RawTimes : AddRoutine(n, t)
     \/ \E i \in KillIds : KillRoutine(i)
     \/ Restart
     \/ \E f \in ImportFiles : ImportStart(f)
     \/ \E f \in ReloadFiles : ReloadStart(f)
     \/ \E p \in pendingIO : FileRead(p)
  /\ UNCHANGED <<wr, dbDown, exported>>

Spec == Init /\ [][Next]_vars

\* the dispatcher: tasks are defined and scheduled, run by their timers or at
\* once, and their requests are answered or fail; a crash, and the start
NextRun ==
  /\ \/ Startup
     \/ Crash
     \/ \E b \in Bodies : AddTask(NameA, b)
     \/ \E f \in RunCfgFiles : ImportStart(f)
     \/ \E p \in pendingIO : FileRead(p)
     \/ LogClear
     \/ \E t \in timers, h \in Hours, d \in Dates : Tick(t, h, d)
     \/ \E n \in RunNames, h \in Hours, d \in Dates : RunNow(n, h, d)
     \/ \E r \in BagToSet(inflight) : RequestEnd(r)
     \/ \E r \in BagToSet(inflight) : RequestError(r)
  /\ UNCHANGED <<wr, dbDown, exported>>

SpecRun == Init /\ [][NextRun]_vars

\* the dispatcher with everything that is asynchronous: delayed runs, a
\* response that is cut, and a restart while callbacks are pending
NextAsync ==
  /\ \/ Startup
     \/ Crash
     \/ \E b \in Bodies : AddTask(NameA, b)
     \/ \E f \in RunCfgFiles : ImportStart(f)
     \/ \E p \in pendingIO : FileRead(p)
     \/ LogClear
     \/ \E t \in timers, h \in Hours, d \in Dates : Tick(t, h, d)
     \/ \E n \in RunNames, h \in Hours, d \in Dates : RunNow(n, h, d)
     \/ \E n \in RunNames : RunLater(n)
     \/ \E p \in pendingIO, h \in Hours, d \in Dates : DelayedRun(p, h, d)
     \/ \E r \in BagToSet(inflight) : RequestEnd(r)
     \/ \E r \in BagToSet(inflight) : RequestError(r)
     \/ \E r \in BagToSet(inflight) : RequestAborted(r)
     \/ Restart
  /\ UNCHANGED <<wr, dbDown, exported>>

SpecAsync == Init /\ [][NextAsync]_vars

\* configuration snapshots: tasks are added, snapshots are imported and
\* reloaded; a crash, and the start
NextCfg ==
  /\ \/ Startup
     \/ Crash
     \/ \E n \in TaskNames, b \in Bodies : AddTask(n, b)
     \/ \E n \in TaskNames : DeleteTask(n)
     \/ \E f \in CfgFiles : ImportStart(f)
     \/ \E f \in CfgFiles : ReloadStart(f)
     \/ \E p \in pendingIO : FileRead(p)
  /\ UNCHANGED <<wr, dbDown, exported>>

SpecCfg == Init /\ [][NextCfg]_vars

\* the process is down and table logs has the rows of its earlier runs
InitLog ==
  /\ up = FALSE
  /\ gTasks = <<>>
  /\ gIntervals = <<>>
  /\ gTasksLog = <<>>
  /\ timers = {}
  /\ nextId = 0
  /\ inflight = EmptyBag
  /\ pendingIO = {}
  /\ dbTasks = {}
  /\ dbIntervals = {}
  /\ dbLogs \in {Filled(k) : k \in LogStarts}
  /\ runs = NoRuns
  /\ last = Last("init", "ok")
  /\ wr = WrIdle
  /\ dbDown = FALSE
  /\ exported = NoExport

\* the log: appends and clears, /api/restart, a crash, and the start of the
\* process
NextLog ==
  /\ \/ Startup
     \/ Crash
     \/ \E m \in {"response", "notFound"} : LogAppend(m)
     \/ LogClear
     \/ Restart
  /\ UNCHANGED <<wr, dbDown, exported>>

SpecLog == InitLog /\ [][NextLog]_vars

\* tasks with a list are added and run, and their requests end
NextList ==
  /\ \/ Startup
     \/ Crash
     \/ \E n \in TaskNames, b \in ListBodies : AddTask(n, b)
     \/ \E n \in TaskNames, h \in Hours, d \in Dates : RunNow(n, h, d)
     \/ \E r \in BagToSet(inflight) : RequestEnd(r)
     \/ \E r \in BagToSet(inflight) : RequestError(r)
     \/ LogClear
  /\ UNCHANGED <<wr, dbDown, exported>>

SpecList == Init /\ [][NextList]_vars

\* one life of the process: a task with placeholders is added, scheduled and
\* run, by its timer or at once, while the requests of earlier runs end
NextTpl ==
  /\ \/ Startup
     \/ \E b \in TplBodies : AddTask(NameA, b)
     \/ AddTask(NameA, [type |-> "http", data |-> IncOne,
                        postType |-> <<>>, postData |-> <<>>])
     \/ AddRoutine(NameA, <<"1">>)
     \/ \E t \in timers, h \in Hours, d \in Dates : Tick(t, h, d)
     \/ \E h \in Hours, d \in Dates : RunNow(NameA, h, d)
     \/ \E r \in BagToSet(inflight) : RequestEnd(r)
     \/ \E r \in BagToSet(inflight) : RequestError(r)
  /\ UNCHANGED <<wr, dbDown, exported>>

SpecTpl == Init /\ [][NextTpl]_vars

\* the handlers that write to the database, while its writes succeed and
\* while they throw
NextFault ==
  \/ /\ \/ Startup
        \/ \E b \in Bodies : AddTask(NameA, b)
        \/ AddRoutine(NameA, <<"1">>)
        \/ \E f \in RunCfgFiles : ImportStart(f)
        \/ \E p \in pendingIO : FileRead(p)
        \/ \E n \in TaskNames, h \in Hours, d \in Dates : RunNow(n, h, d)
        \/ \E r \in BagToSet(inflight) : RequestEnd(r)
        \/ LogClear
     /\ UNCHANGED <<wr, dbDown, exported>>
  \/ DbBreaks
  \/ DbRecovers

SpecFault == Init /\ [][NextFault]_vars

\* routines are cancelled, by a kill or by the delete of their task, while
\* their timers tick and the requests of their runs are on their way
NextCancel ==
  /\ \/ Startup
     \/ Crash
     \/ AddTask(NameA, [type |-> "http", data |-> IncOne,
                        postType |-> <<>>, postData |-> <<>>])
     \/ \E f \in RunCfgFiles : ImportStart(f)
     \/ \E p \in pendingIO : FileRead(p)
     \/ \E t \in timers, h \in Hours, d \in Dates : Tick(t, h, d)
     \/ \E i \in KillIds : KillRoutine(i)
     \/ \E n \in TaskNames : DeleteTask(n)
     \/ \E r \in BagToSet(inflight) : RequestEnd(r)
     \/ \E r \in BagToSet(inflight) : RequestError(r)
  /\ UNCHANGED <<wr, dbDown, exported>>

SpecCancel == Init /\ [][NextCancel]_vars

\* one life of the process with two tasks: they are added, imported and run,
\* by their timers or at once, while the requests of their runs end
NextOwn ==
  /\ \/ Startup
     \/ \E b \in Bodies : AddTask(NameA, b)
     \/ \E f \in RunCfgFiles : ImportStart(f)
     \/ \E p \in pendingIO : FileRead(p)
     \/ \E t \in timers, h \in Hours, d \in Dates : Tick(t, h, d)
     \/ \E n \in TaskNames, h \in Hours, d \in Dates : RunNow(n, h, d)
     \/ \E r \in BagToSet(inflight) : RequestEnd(r)
     \/ \E r \in BagToSet(inflight) : RequestError(r)
  /\ UNCHANGED <<wr, dbDown, exported>>

SpecOwn == Init /\ [][NextOwn]_vars

\* one life of the process: tasks of several types, and tasks whose
\* placeholders name files that do not exist, are added, scheduled and run
NextKinds ==
  /\ \/ Startup
     \/ \E b \in MissingBodies \cup TypeBodies : AddTask(NameA, b)
     \/ AddRoutine(NameA, <<"1">>)
     \/ \E t \in timers, h \in Hours, d \in Dates : Tick(t, h, d)
     \/ \E h \in Hours, d \in Dates : RunNow(NameA, h, d)
     \/ \E r \in BagToSet(inflight) : RequestEnd(r)
     \/ \E r \in BagToSet(inflight) : RequestError(r)
  /\ UNCHANGED <<wr, dbDown, exported>>

SpecKinds == Init /\ [][NextKinds]_vars

\* the rows of table tasks in a database file that holds a row whose name is
\* blank: startup filters such rows out, no handler of index.js writes one
OldTasks ==
  { [name |-> <<" ">>, type |-> "http", data |-> IncOne, postType |-> <<>>,
     postData |-> <<>>],
    [name |-> NameA, type |-> "http", data |-> IncOne, postType |-> <<>>,
     postData |-> <<>>] }

\* the process is down; the database file is new, or holds OldTasks
InitNames ==
  /\ up = FALSE
  /\ gTasks = <<>>
  /\ gIntervals = <<>>
  /\ gTasksLog = <<>>
  /\ timers = {}
  /\ nextId = 0
  /\ inflight = EmptyBag
  /\ pendingIO = {}
  /\ dbTasks \in {{}, OldTasks}
  /\ dbIntervals = {}
  /\ dbLogs = <<>>
  /\ runs = NoRuns
  /\ last = Last("init", "ok")
  /\ wr = WrIdle
  /\ dbDown = FALSE
  /\ exported = NoExport

\* every way a task comes into gTasks, with names that are blank
NextNames ==
  /\ \/ Startup
     \/ Crash
     \/ \E n \in AddNames, b \in Bodies : AddTask(n, b)
     \/ \E f \in BlankFiles : ImportStart(f)
     \/ \E f \in BlankFiles : ReloadStart(f)
     \/ \E p \in pendingIO : FileRead(p)
  /\ UNCHANGED <<wr, dbDown, exported>>

SpecNames == InitNames /\ [][NextNames]_vars

\* req.query.cfg of a snapshot that was exported and of a file that is not JSON
SnapFiles == {"export.json", "broken.json"}

\* the exports of one life of the process
MaxExports == 1

\* one life of the process: a task and its routines are added and run, the
\* configuration is exported, and snapshots are reloaded
NextSnap ==
  /\ \/ /\ \/ Startup
           \/ AddTask(NameA, [type |-> "http", data |-> IncOne, postType |-> <<>>,
                              postData |-> <<>>])
           \/ AddRoutine(NameA, <<"1">>)
           \/ \E t \in timers, h \in Hours, d \in Dates : Tick(t, h, d)
           \/ \E r \in BagToSet(inflight) : RequestEnd(r)
           \/ \E f \in SnapFiles : ReloadStart(f)
           \/ \E p \in pendingIO : FileRead(p)
        /\ UNCHANGED exported
     \/ (exported.count < MaxExports /\ ExportCfg)
  /\ UNCHANGED <<wr, dbDown>>

SpecSnap == Init /\ [][NextSnap]_vars

\* req.query.path of a snapshot of another task, of a file that is not JSON,
\* of a file with an entry that has no data and of a file that does not exist
KeepFiles == {"order.json", "broken.json", "nodata.json", "gone.json"}

\* one life of the process: a task and its routine are added and run, and
\* snapshots are imported
NextKeep ==
  /\ \/ Startup
     \/ AddTask(NameA, [type |-> "http", data |-> IncOne, postType |-> <<>>,
                        postData |-> <<>>])
     \/ AddRoutine(NameA, <<"1">>)
     \/ \E t \in timers, h \in Hours, d \in Dates : Tick(t, h, d)
     \/ \E r \in BagToSet(inflight) : RequestEnd(r)
     \/ \E f \in KeepFiles : ImportStart(f)
     \/ \E p \in pendingIO : FileRead(p)
  /\ UNCHANGED <<wr, dbDown, exported>>

SpecKeep == Init /\ [][NextKeep]_vars

\* one life of the process: a task and its routine are added, run at once
\* and later, and the task is deleted or everything is cleared meanwhile
NextGone ==
  /\ \/ Startup
     \/ AddTask(NameA, [type |-> "http", data |-> IncOne, postType |-> <<>>,
                        postData |-> <<>>])
     \/ AddRoutine(NameA, <<"1">>)
     \/ DeleteTask(NameA)
     \/ Restart
     \/ \E t \in timers, h \in Hours, d \in Dates : Tick(t, h, d)
     \/ \E n \in RunNames, h \in Hours, d \in Dates : RunNow(n, h, d)
     \/ \E n \in RunNames : RunLater(n)
     \/ \E p \in pendingIO, h \in Hours, d \in Dates : DelayedRun(p, h, d)
  /\ UNCHANGED <<wr, dbDown, exported>>

SpecGone == Init /\ [][NextGone]_vars

\* the calls of withRetries, with every outcome of every attempt
NextRetry ==
  \/ \E b \in Backoffs : WrCall(b)
  \/ \E o \in Outcomes : WrSettle(o)
  \/ WrSleep

SpecRetry == Init /\ [][NextRetry]_vars

(***************************************************************************)
(* The store and the scheduler (Spec)                                      *)
(***************************************************************************)

\* the names of the tasks in memory and of the rows of table tasks
MemNames == {gTasks[i].name : i \in DOMAIN gTasks}
DbNames == {r.name : r \in dbTasks}

\* C1: while the process runs, every timer, every entry of the registry and
\* every persisted interval definition names a task that is in the task list
\* in memory and in table tasks.
C1_RoutinesNameTasks ==
  up => /\ \A t \in timers : t.name \in MemNames \cap DbNames
        /\ \A i \in DOMAIN gIntervals : gIntervals[i].name \in MemNames \cap DbNames
        /\ \A d \in dbIntervals : d.name \in MemNames \cap DbNames

\* a task was deleted with its routines while another task keeps its routine
C1_Witness ==
  /\ last = Last("delTask", "cascade")
  /\ timers # {}
  /\ dbIntervals # {}

\* C2: GET /api/task/del/:name leaves no task, no timer, no registry entry and
\* no interval definition of that name, in memory and in the tables, and
\* removes nothing of another name.
C2_DeleteCascades ==
  [][\A n \in RunNames :
       DeleteTask(n) =>
         /\ gTasks' = SelectSeq(gTasks, LAMBDA t : t.name # n)
         /\ dbTasks' = {r \in dbTasks : r.name # n}
         /\ timers' = {t \in timers : t.name # n}
         /\ gIntervals' = SelectSeq(gIntervals, LAMBDA e : e.name # n)
         /\ dbIntervals' = {d \in dbIntervals : d.name # n}
         /\ \A t \in timers' : \E e \in Range(gIntervals') : e.id = t.id]_vars

\* a task with two routines was deleted
C2_Witness ==
  /\ last = Last("delTask", "cascade")
  /\ nextId = 2
  /\ timers = {}
  /\ dbIntervals = {}
  /\ gTasks # <<>>

\* C3: an accepted POST /api/task/add leaves exactly one task of that name in
\* the list in memory and one row in table tasks, both with the fields of
\* the call.
C3_UpsertReplaces ==
  [][\A n \in RawNames, b \in Bodies :
       (AddTask(n, b) /\ Trim(StringOrEmpty(n)) # <<>>) =>
         /\ SelectSeq(gTasks', LAMBDA t : t.name = Trim(StringOrEmpty(n)))
              = <<Task(Trim(StringOrEmpty(n)), b)>>
         /\ {r \in dbTasks' : r.name = Trim(StringOrEmpty(n))}
              = {Task(Trim(StringOrEmpty(n)), b)}]_vars

\* a task was added while the list holds two entries of one name
C3_Witness ==
  /\ last = Last("addTask", "ok")
  /\ Len(gTasks) = 2
  /\ gTasks[1].name = gTasks[2].name

\* C4: no two entries of the task list in memory have the same name.
C4_UniqueNames ==
  \A i, j \in DOMAIN gTasks : gTasks[i].name = gTasks[j].name => i = j

\* a reload has read a snapshot with two task entries of one name
C4_Witness ==
  /\ last = Last("reload", "ok")
  /\ Len(gTasks) = 2
  /\ gTasks[1].name = gTasks[2].name
  /\ Cardinality(dbTasks) = 1

\* a decimal numeral of a positive integer
PositiveInteger(t) ==
  /\ t # NoValue
  /\ t # <<>>
  /\ \A k \in DOMAIN t : IsDigit(t[k])
  /\ ToNat(t) > 0

\* POST /api/task/interval/add with name n and time t changes nothing
RoutineRejected(n, t) == AddRoutine(n, t) /\ UNCHANGED <<mem, db>>

\* POST /api/task/interval/add with name n and time t adds one timer of the
\* period ms for the trimmed name, registers it and persists its definition
RoutineAdded(n, t, ms) ==
  /\ AddRoutine(n, t)
  /\ \E id \in 1..MaxId :
       /\ id \notin Ids(gIntervals)
       /\ \A x \in timers : x.id # id
       /\ timers' = timers \cup {[id |-> id, name |-> Trim(StringOrEmpty(n)), time |-> ms]}
       /\ gIntervals' = Append(gIntervals,
                               [name |-> Trim(StringOrEmpty(n)), id |-> id, time |-> ms])
  /\ dbIntervals' = {d \in dbIntervals : d.name # Trim(StringOrEmpty(n))}
                      \cup {[name |-> Trim(StringOrEmpty(n)), timeMs |-> ms]}
  /\ UNCHANGED <<gTasks, gTasksLog, dbTasks, dbLogs>>

\* C5 as stated: the call is rejected, and changes nothing, when the name is
\* empty after trimming, the time is not a positive integer or no task has
\* the name; otherwise it adds one timer of that period and its definition.
C5_RejectsNonInteger ==
  [][last'.op = "addRoutine" =>
     \A n \in RawNames, t \in RawTimes :
       AddRoutine(n, t) =>
         IF \/ Trim(StringOrEmpty(n)) = <<>>
            \/ ~PositiveInteger(t)
            \/ Trim(StringOrEmpty(n)) \notin MemNames
         THEN RoutineRejected(n, t)
         ELSE RoutineAdded(n, t, ToNat(t))]_vars

\* C5, amended: the time is read as parseInt reads it (white space, a sign,
\* the leading digits); the call is rejected, and changes nothing, when the
\* name is empty after trimming, parseInt gives NaN or a value <= 0, or no task
\* has the name; otherwise it adds one timer of the parsed period and its
\* definition.
C5_RejectsUnparsed ==
  [][last'.op = "addRoutine" =>
     \A n \in RawNames, t \in RawTimes :
       AddRoutine(n, t) =>
         IF \/ Trim(StringOrEmpty(n)) = <<>>
            \/ ParseInt(t).nan
            \/ ParseInt(t).val <= 0
            \/ Trim(StringOrEmpty(n)) \notin MemNames
         THEN RoutineRejected(n, t)
         ELSE RoutineAdded(n, t, ParseInt(t).val)]_vars

\* a second routine was added for a task that has one, and another call was
\* rejected before
C5_Witness ==
  /\ last = Last("addRoutine", "ok")
  /\ Len(gIntervals) = 2
  /\ gIntervals[1].name = gIntervals[2].name
  /\ Cardinality(dbIntervals) = 1

\* C6: the start of the process deletes every interval definition whose task
\* is not in table tasks and creates no timer for it; every other definition
\* gets exactly one timer of its name and period, and the registry holds
\* these timers and nothing else.
C6_RehydrationExact ==
  [][Startup =>
       /\ dbIntervals' = {d \in dbIntervals : d.name \in DbNames}
       /\ \A d \in dbIntervals' :
            \E t \in timers' :
              /\ t.name = d.name
              /\ t.time = d.timeMs
              /\ \A u \in timers' : u.name = d.name => u = t
       /\ \A t \in timers' : \E d \in dbIntervals' : d.name = t.name
       /\ Len(gIntervals') = Cardinality(timers')
       /\ \A t \in timers' :
            \E i \in DOMAIN gIntervals' :
              gIntervals'[i] = [name |-> t.name, id |-> t.id, time |-> t.time]]_vars

\* the start found a definition without task, and another with its task
C6_Witness ==
  /\ last.op = "startup"
  /\ last.res = "orphan"
  /\ timers # {}

\* C7: after a crash and the start that follows it, every task name that had
\* a timer when the process crashed has a timer again, of the same period.
C7_RoutinesSurviveRestart ==
  last.op = "startup" =>
    \A h \in last.had : \E t \in timers : t.name = h.name /\ t.time = h.time

\* the process crashed with a routine running and started without any
C7_Witness ==
  /\ last.op = "startup"
  /\ last.had # {}
  /\ timers = {}
  /\ gTasks # <<>>

\* C8: while the process runs, every task in memory has its row in table
\* tasks with the same data and postData: the persisted templates are never
\* behind the templates in memory, which a run has advanced.
C8_PersistedNotBehind ==
  up => \A i \in DOMAIN gTasks :
          \E r \in dbTasks :
            /\ r.name = gTasks[i].name
            /\ r.data = gTasks[i].data
            /\ r.postData = gTasks[i].postData

\* a run was dispatched and the row of its task still has the old template
C8_Witness ==
  /\ last = Last("runNow", "dispatched")
  /\ \E i \in DOMAIN gTasks :
       \E r \in dbTasks :
         /\ r.name = gTasks[i].name
         /\ r.data = IncOne
         /\ gTasks[i].data # IncOne

\* a template with the counter n after the text pre, and what a run sends for it
IncTemplate(pre, n) == pre \o <<"~", "i", "n", "c", "$">> \o NumStr(n) \o <<"~">>
IncValue(pre, n) == pre \o NumStr(n)

\* a tick or a run-now of the task named n whose fields are strings
RunOf(n) ==
  /\ HasTask(gTasks, n)
  /\ gTasks[FindIndex(gTasks, n)].data # NoValue
  /\ gTasks[FindIndex(gTasks, n)].postData # NoValue
  /\ \E h \in Hours, d \in Dates :
       \/ RunNow(n, h, d)
       \/ \E t \in timers : t.name = n /\ Tick(t, h, d)

\* C9: a run of a task whose data or postData is a template with ~inc$N~
\* sends N in its place and leaves ~inc$(N+1)~ in the task; the end of the
\* request, with or without error, does not change the task; and the values
\* that successive runs of a task send for a counter go up by one.
C9_CounterAdvances ==
  [][/\ \A n \in TaskNames :
          RunOf(n) =>
            \A pre \in {<<>>, <<"u">>}, k \in 0..(9 + MaxRuns) :
              /\ gTasks[FindIndex(gTasks, n)].data = IncTemplate(pre, k) =>
                   /\ runs'[n] # <<>>
                   /\ runs'[n][Len(runs'[n])].data = IncValue(pre, k)
                   /\ gTasks'[FindIndex(gTasks, n)].data = IncTemplate(pre, k + 1)
              /\ gTasks[FindIndex(gTasks, n)].postData = IncTemplate(pre, k) =>
                   /\ runs'[n] # <<>>
                   /\ runs'[n][Len(runs'[n])].postData = IncValue(pre, k)
                   /\ gTasks'[FindIndex(gTasks, n)].postData = IncTemplate(pre, k + 1)
              /\ (runs[n] # <<>> /\ runs[n][Len(runs[n])].data = IncValue(pre, k)) =>
                   /\ Len(runs'[n]) = Len(runs[n]) + 1
                   /\ runs'[n][Len(runs'[n])].data = IncValue(pre, k + 1)
              /\ (runs[n] # <<>> /\ runs[n][Len(runs[n])].postData = IncValue(pre, k)) =>
                   /\ Len(runs'[n]) = Len(runs[n]) + 1
                   /\ runs'[n][Len(runs'[n])].postData = IncValue(pre, k + 1)
     /\ last'.op \in {"requestEnd", "requestError"} => gTasks' = gTasks]_vars

\* two successive runs of one task have sent the same value of its counter
C9_Witness ==
  /\ last.op \in {"tick", "runNow"}
  /\ \E n \in TaskNames :
       /\ Len(runs[n]) = 2
       /\ runs[n][1].data = <<"1">>
       /\ runs[n][2].data = <<"1">>

\* C10: a run that fails (no task of the name, an exception while the
\* templates are expanded or the request is built, an error or timeout of
\* the request) appends one error entry to the log in memory and to table
\* logs, and leaves the timers, the registry and the interval definitions as
\* they are, with the process running: every timer can tick again.
C10_FailedRunKeepsTimers ==
  [][(\/ /\ last'.op \in {"tick", "runNow"}
         /\ last'.res \in {"notFound", "expandError", "buildError"}
      \/ last'.op = "requestError") =>
       /\ \E e \in {"notFound", "doTaskError", "postError", "getError"} :
            /\ gTasksLog' = Append(gTasksLog, e)
            /\ dbLogs' = Append(dbLogs, e)
       /\ timers' = timers
       /\ gIntervals' = gIntervals
       /\ dbIntervals' = dbIntervals
       /\ up'
       /\ \A t \in timers : t \in timers' /\ HasTask(gTasks', t.name) = HasTask(gTasks, t.name)]_vars

\* the tick of a timer failed while the request was built
C10_Witness ==
  /\ last = Last("tick", "buildError")
  /\ timers # {}
  /\ gTasksLog # <<>>

\* the log in memory and table logs get the one entry e
OneEntry(e) ==
  /\ gTasksLog' = Append(gTasksLog, e)
  /\ dbLogs' = Append(dbLogs, e)

\* C11: every run attempt (a tick, a run-now, a delayed run) appends exactly
\* one log entry. A run that ends in doTask appends its entry there and sends
\* no request; a run that sends its request appends nothing yet, and while
\* the process runs its request ends only in a step that appends one entry.
C11_OneEntryPerRun ==
  [][/\ (last'.op \in {"tick", "runNow", "delayed"} /\ last'.res # "dispatched") =>
          /\ \E e \in {"notFound", "doTaskError"} : OneEntry(e)
          /\ inflight' = inflight
     /\ (last'.op \in {"tick", "runNow", "delayed"} /\ last'.res = "dispatched") =>
          /\ gTasksLog' = gTasksLog
          /\ dbLogs' = dbLogs
          /\ BagCardinality(inflight') = BagCardinality(inflight) + 1
     /\ (up' /\ BagCardinality(inflight') < BagCardinality(inflight)) =>
          /\ BagCardinality(inflight') = BagCardinality(inflight) - 1
          /\ \E e \in {"response", "postError", "getError"} : OneEntry(e)]_vars

\* the request of a run is over and the run has logged nothing
C11_Witness ==
  /\ last = Last("requestAborted", "ok")
  /\ inflight = EmptyBag
  /\ dbLogs = <<>>
  /\ \E n \in TaskNames : runs[n] # <<>>

\* no task, no routine, no log entry, in memory or in the database, and no timer
AllEmpty ==
  /\ gTasks = <<>>
  /\ gIntervals = <<>>
  /\ gTasksLog = <<>>
  /\ timers = {}
  /\ dbTasks = {}
  /\ dbIntervals = {}
  /\ dbLogs = <<>>

\* C12: GET /api/restart leaves the task list, the routine list and the log
\* empty in memory and in the database, and no timer; and they stay so in
\* the step that follows the restart when it is not a call of the API: a
\* tick, a delayed run that was pending, the end or the failure of a request
\* sent before.
C12_RestartStaysEmpty ==
  [][/\ Restart => AllEmpty'
     /\ (/\ last.op = "restart"
         /\ last'.op \in {"tick", "delayed", "requestEnd", "requestError",
                          "requestAborted"}) => AllEmpty']_vars

\* after a restart the response of an earlier run was logged
C12_Witness ==
  /\ last = Last("requestEnd", "ok")
  /\ gTasks = <<>>
  /\ dbTasks = {}
  /\ gTasksLog # <<>>

\* a response with a status of the transient set {408, 429, >= 500}
TransientResponse(o) ==
  /\ o.kind = "response"
  /\ (o.statusCode \in {408, 429} \/ o.statusCode >= 500)

\* C13: when the first j attempts of a call of withRetries (j from 0 to the
\* number of delays) each gave a transient status and attempt j+1 a status
\* that is not transient, the call has made exactly j+1 attempts, has slept
\* exactly the first j delays in list order and has returned the last
\* response; and the sleeps are one after each attempt but the last.
C13_RetriesThenReturns ==
  /\ Len(wr.slept) <= Len(wr.made)
  /\ wr.pc = "request" => Len(wr.slept) = Len(wr.made)
  /\ \A j \in 0..Len(wr.backoffsMs) :
       (/\ Len(wr.made) > j
        /\ \A i \in 1..j : TransientResponse(wr.made[i])
        /\ wr.made[j + 1].kind = "response"
        /\ ~TransientResponse(wr.made[j + 1])) =>
         /\ Len(wr.made) = j + 1
         /\ wr.pc = "returned"
         /\ wr.result = wr.made[j + 1]
         /\ wr.slept = SubSeq(wr.backoffsMs, 1, j)

\* delays [500, 1500, 3500] and statuses 500, 500, 500, 200
C13_Witness ==
  /\ wr.backoffsMs = <<500, 1500, 3500>>
  /\ wr.made = <<Response(500), Response(500), Response(500), Response(200)>>
  /\ wr.slept = <<500, 1500, 3500>>
  /\ wr.pc = "returned"

\* C14: a call of withRetries makes at most (number of delays + 1) attempts;
\* after that many attempts it is over, it has slept each delay once, and
\* the outcome of the last attempt is its result: returned when it is a
\* response, whatever its status, thrown when it is an error, whatever its
\* code.
C14_BoundedAttempts ==
  /\ Len(wr.made) <= Len(wr.backoffsMs) + 1
  /\ Len(wr.made) = Len(wr.backoffsMs) + 1 =>
       /\ wr.pc = (IF wr.made[Len(wr.made)].kind = "response"
                   THEN "returned" ELSE "thrown")
       /\ wr.result = wr.made[Len(wr.made)]
       /\ wr.slept = wr.backoffsMs

\* the attempt after the last delay failed with a transient error
C14_Witness ==
  /\ wr.backoffsMs = <<500, 1500, 3500>>
  /\ Len(wr.made) = 4
  /\ wr.made[4] = Failure("ETIMEDOUT")
  /\ wr.pc = "thrown"

\* a status of the transient set, or an error with a code of the transient
\* class
Retryable(o) ==
  \/ TransientResponse(o)
  \/ /\ o.kind = "error"
     /\ o.code \in {"ETIMEDOUT", "ECONNRESET", "EAI_AGAIN", "ECONNREFUSED",
                    "ENETUNREACH", "EHOSTUNREACH", "ENOTFOUND", "EPIPE"}

\* C15: an attempt of withRetries is followed by a sleep only if its outcome
\* is a status in {408, 429, >= 500} or an error with a transient code; any
\* other response, a 3xx included, is returned at once and any other error
\* is thrown at once, without sleep; and a call that is over makes no
\* further attempt.
C15_RetryOnlyTransient ==
  [][/\ \A o \in Outcomes :
          WrSettle(o) =>
            /\ wr'.pc = "sleep" => Retryable(o)
            /\ ~Retryable(o) =>
                 /\ wr'.pc = (IF o.kind = "response" THEN "returned" ELSE "thrown")
                 /\ wr'.result = o
                 /\ wr'.slept = wr.slept
     /\ wr.pc \in {"returned", "thrown"} =>
          (wr'.made = wr.made \/ (wr'.pc = "request" /\ wr'.made = <<>>))]_vars

\* a redirect was returned after one retry
C15_Witness ==
  /\ wr.made = <<Failure("ENOTFOUND"), Response(302)>>
  /\ wr.slept = <<500>>
  /\ wr.pc = "returned"
  /\ wr.result = Response(302)

\* C16: the log in memory never holds more than MAX_LOG_ENTRIES = 1000
\* entries. An append puts its entry last and, when the log is full, takes
\* the oldest entry out; a clear empties the log; and the start of the
\* process loads the last 1000 rows of table logs, in their order.
C16_MemoryLogCapped ==
  [][/\ Len(gTasksLog') <= 1000
     /\ \A m \in {"response", "notFound"} :
          LogAppend(m) =>
            gTasksLog' = (IF Len(gTasksLog) < 1000 THEN gTasksLog
                          ELSE Tail(gTasksLog)) \o <<m>>
     /\ LogClear => gTasksLog' = <<>>
     /\ Startup =>
          /\ Len(gTasksLog') = (IF Len(dbLogs) < 1000 THEN Len(dbLogs) ELSE 1000)
          /\ \A i \in 1..Len(gTasksLog') :
               gTasksLog'[i] = dbLogs[Len(dbLogs) - Len(gTasksLog') + i]]_vars

\* an entry was appended to a full log, and the oldest went out
C16_Witness ==
  /\ last = Last("pushLog", "ok")
  /\ Len(gTasksLog) = 1000
  /\ gTasksLog[999] = "response"
  /\ gTasksLog[1000] = "notFound"
  /\ gTasksLog[1] = "old"
  /\ Len(dbLogs) = 1001

\* C17: table logs never holds more than MAX_LOG_ENTRIES = 1000 rows.
C17_PersistedLogCapped == Len(dbLogs) <= 1000

\* an entry was appended when the table had 1000 rows
C17_Witness ==
  /\ last = Last("pushLog", "ok")
  /\ Len(dbLogs) = 1001
  /\ Len(gTasksLog) = 1000
  /\ dbLogs[1] = "old"

\* C18: adding a task whose name is empty or holds only white space is
\* rejected, and leaves the tasks, routines, timers and log, in memory and
\* in the database, as they were.
C18_BlankNameRejected ==
  [][last'.op = "addTask" =>
       \A n \in {r \in AddNames : \A k \in DOMAIN r : IsSpace(r[k])}, b \in Bodies :
         AddTask(n, b) => /\ last'.res = "rejected"
                          /\ UNCHANGED <<mem, db>>]_vars

\* a blank name was rejected while a task and a timer existed
C18_Witness ==
  /\ last = Last("addTask", "rejected")
  /\ gTasks # <<>>
  /\ timers # {}

\* the names under which the task entries of a snapshot are stored
StoredNames(entries) ==
  {Trim(StringOrEmpty(entries[i].data.name)) :
     i \in {j \in DOMAIN entries : entries[j].kind = "task"}} \ {<<>>}

\* C19: when an import or a reload applies a snapshot, every routine entry
\* whose task is an entry of the snapshot, before or after it, or is
\* already held, gets a new timer and a row in table intervals and is not
\* reported; every other routine entry gets no timer and no row, and its name
\* is in the response.
C19_TasksBeforeRoutines ==
  [][\A p \in pendingIO :
       (FileRead(p) /\ ReadCfg(p.cfg).status = "ok") =>
         \A i \in DOMAIN ReadCfg(p.cfg).entries :
           LET e == ReadCfg(p.cfg).entries[i]
           IN e.kind = "routine" =>
                IF e.data.name \in Names(gTasks) \cup StoredNames(ReadCfg(p.cfg).entries)
                THEN /\ \E t \in timers' \ timers :
                          t.name = e.data.name /\ t.time = e.data.time
                     /\ \E d \in dbIntervals' : d.name = e.data.name
                     /\ \A k \in DOMAIN last'.skipped : last'.skipped[k] # e.data.name
                ELSE /\ \A t \in timers' \ timers : t.name # e.data.name
                     /\ {d \in dbIntervals' : d.name = e.data.name}
                          = {d \in dbIntervals : d.name = e.data.name}
                     /\ \E k \in DOMAIN last'.skipped : last'.skipped[k] = e.data.name]_vars

\* a snapshot whose routine b precedes its task and whose routine c has no
\* task was imported into an empty configuration
C19_Witness ==
  /\ last.op \in {"import", "reload"}
  /\ last.skipped = << <<"c">> >>
  /\ Names(gTasks) = {NameB}
  /\ timers = {[id |-> nextId, name |-> NameB, time |-> 2]}
  /\ dbIntervals = {[name |-> NameB, timeMs |-> 2]}

\* the template of a list of the tokens toks, after the text pre
ListTemplate(pre, toks) == pre \o <<"~", "{">> \o Join(toks, <<" ">>) \o <<"}", "~">>

\* lists of one, two and three tokens
TokenLists ==
  {<<t>> : t \in {<<"a">>, <<"b">>}}
    \cup {<<<<"a">>, <<"b">>>>, <<<<"b">>, <<"a">>>>}
    \cup {<<<<"a">>, <<"b">>, <<"c">>>>, <<<<"b">>, <<"c">>, <<"a">>>>,
          <<<<"c">>, <<"a">>, <<"b">>>>}

\* C20: a run of a task whose data is a template with a list of k >= 1
\* tokens sends the first token in its place and leaves in the task the list
\* rotated left by one, so that k runs send every token once and bring the
\* template back.
C20_ListRotates ==
  [][\A n \in TaskNames :
       RunOf(n) =>
         \A pre \in {<<>>, <<"u">>}, toks \in TokenLists :
           gTasks[FindIndex(gTasks, n)].data = ListTemplate(pre, toks) =>
             /\ runs'[n] # <<>>
             /\ runs'[n][Len(runs'[n])].data = pre \o toks[1]
             /\ gTasks'[FindIndex(gTasks, n)].data
                  = ListTemplate(pre, Tail(toks) \o <<toks[1]>>)]_vars

\* a list of one token was run once: the token was sent, and the list in the
\* task now starts with a space
C20_Witness ==
  /\ last = Last("runNow", "dispatched")
  /\ \E n \in TaskNames :
       /\ HasTask(gTasks, n)
       /\ Len(runs[n]) = 1
       /\ runs[n][1].data = <<"a">>
       /\ gTasks[FindIndex(gTasks, n)].data = <<"~", "{", " ", "a", "}", "~">>

\* the files, lines or words placeholder of index n
IndexedTemplate(kw, co1, n) == kw \o <<" ">> \o co1 \o <<" ">> \o NumStr(n) \o <<"~">>

\* the placeholders over the folder d and the file f, with their numbers of items
IndexedForms ==
  { [kw |-> FilesKw, co1 |-> <<"d">>, count |-> Len(ReadDir(<<"d">>))],
    [kw |-> LinesKw, co1 |-> <<"f">>, count |-> Len(Split(ReadFile(<<"f">>), "\n"))],
    [kw |-> WordsKw, co1 |-> <<"f">>, count |-> Len(Split(ReadFile(<<"f">>), " "))] }

\* C21: a run of a task whose data or postData is ~files DIR N~, ~lines FILE
\* N~ or ~words FILE N~ with N at or beyond the number of items sends the
\* empty string in its place, dispatches the request without an error, and
\* leaves the placeholder of index N + 1 in the task.
C21_OutOfRangeIsEmpty ==
  [][\A n \in TaskNames :
       (last'.op \in {"tick", "runNow"} /\ RunOf(n)) =>
         \A f \in IndexedForms, k \in 0..MaxRuns :
           /\ gTasks[FindIndex(gTasks, n)].data = IndexedTemplate(f.kw, f.co1, f.count + k) =>
                /\ last'.res = "dispatched"
                /\ runs'[n] = Append(runs[n], runs'[n][Len(runs'[n])])
                /\ runs'[n][Len(runs'[n])].data = <<>>
                /\ gTasks'[FindIndex(gTasks, n)].data
                     = IndexedTemplate(f.kw, f.co1, f.count + k + 1)
           /\ gTasks[FindIndex(gTasks, n)].postData = IndexedTemplate(f.kw, f.co1, f.count + k) =>
                /\ last'.res = "dispatched"
                /\ runs'[n] = Append(runs[n], runs'[n][Len(runs'[n])])
                /\ runs'[n][Len(runs'[n])].postData = <<>>
                /\ gTasks'[FindIndex(gTasks, n)].postData
                     = IndexedTemplate(f.kw, f.co1, f.count + k + 1)]_vars

\* ~files d 3~ of a folder of three entries was run twice
C21_Witness ==
  /\ last.res = "dispatched"
  /\ Len(runs[NameA]) = 2
  /\ runs[NameA][2].data = <<>>
  /\ runs[NameA][2].postData = <<>>
  /\ gTasks[FindIndex(gTasks, NameA)].data = IndexedTemplate(FilesKw, <<"d">>, 5)
  /\ gTasks[FindIndex(gTasks, NameA)].postData = IndexedTemplate(LinesKw, <<"f">>, 4)

\* C22: a kill of an id that no timer has leaves the registry, the timers,
\* table intervals and the tasks, in memory and in the database, as they
\* were, and is answered like any kill; after a kill no timer has the id, so
\* a second kill of the same id is such a kill.
C22_KillAbsentIsNoOp ==
  [][last'.op = "kill" =>
       \A i \in KillIds :
         KillRoutine(i) =>
           /\ \A t \in timers' : t.id # i
           /\ i \notin Ids(gIntervals')
           /\ (\A t \in timers : t.id # i) =>
                /\ UNCHANGED <<gTasks, gIntervals, timers, dbTasks, dbIntervals, dbLogs>>
                /\ last'.res = "absent"]_vars

\* an id that no timer has was killed while a routine was running
C22_Witness ==
  /\ last = Last("kill", "absent")
  /\ timers # {}
  /\ dbIntervals # {}
  /\ gTasks # <<>>

\* C23: while the writes of the database throw, an add of a task, an add of
\* a routine, an import and an append to the log write nothing to the
\* database and still take effect in memory: the task is in gTasks, the
\* routine has a timer, the tasks of the snapshot are in gTasks, the entry
\* is in gTasksLog.
C23_WriteFailureKeepsMemory ==
  [][dbDown =>
       /\ UNCHANGED db
       /\ \A b \in Bodies :
            (AddTask(NameA, b)) => \E i \in DOMAIN gTasks' : gTasks'[i] = Task(NameA, b)
       /\ (AddRoutine(NameA, <<"1">>) /\ HasTask(gTasks, NameA)) =>
            /\ Len(gIntervals') = Len(gIntervals) + 1
            /\ \E t \in timers' \ timers : t.name = NameA /\ t.time = 1
       /\ \A p \in pendingIO :
            (FileRead(p) /\ ReadCfg(p.cfg).status = "ok") =>
               StoredNames(ReadCfg(p.cfg).entries) \subseteq Names(gTasks')
       /\ last'.op \in {"requestEnd", "requestError"} \/ last'.res = "notFound" =>
            /\ Len(gTasksLog') = Len(gTasksLog) + 1]_vars

\* an add of a task was answered with an error while the writes threw, and
\* the task is not in memory
C23_Witness ==
  /\ dbDown
  /\ last = Last("addTask", "saveError")
  /\ ~HasTask(gTasks, NameA)
  /\ dbTasks = {}

\* C24: every timer and every row of table intervals has a period that is
\* an integer greater than 0, those that an import or a reload created
\* included.
C24_PeriodsPositive ==
  /\ \A t \in timers : t.time \in Nat /\ t.time > 0
  /\ \A d \in dbIntervals : d.timeMs \in Nat /\ d.timeMs > 0
  /\ \A i \in DOMAIN gIntervals : gIntervals[i].time \in Nat /\ gIntervals[i].time > 0

\* a snapshot with a routine of period 0 was imported or reloaded
C24_Witness ==
  /\ last.op \in {"import", "reload"}
  /\ last.res = "ok"
  /\ \E t \in timers : t.name = NameA /\ t.time = 0
  /\ [name |-> NameA, timeMs |-> 0] \in dbIntervals

\* ~dec$n~, and ~a + b~ or ~a - b~
DecTemplate(n) == DecKw \o NumStr(n) \o <<"~">>
ArithTemplate(a, op, b) == <<"~">> \o NumStr(a) \o <<" ", op, " ">> \o NumStr(b) \o <<"~">>

\* templates of two placeholders of one kind: the template, what a run sends
\* for it when only the first is evaluated, and what it leaves when only the
\* first advances
PairCases ==
  UNION { { [tpl |-> IncTemplate(<<>>, k) \o IncTemplate(<<>>, 5),
             val |-> NumStr(k) \o IncTemplate(<<>>, 5),
             nxt |-> IncTemplate(<<>>, k + 1) \o IncTemplate(<<>>, 5)],
            [tpl |-> DecTemplate(k + 1) \o DecTemplate(7),
             val |-> NumStr(k + 1) \o DecTemplate(7),
             nxt |-> DecTemplate(k) \o DecTemplate(7)],
            [tpl |-> ArithTemplate(k, "+", 2) \o ArithTemplate(3, "+", 4),
             val |-> NumStr(k) \o ArithTemplate(3, "+", 4),
             nxt |-> ArithTemplate(k + 2, "+", 2) \o ArithTemplate(3, "+", 4)],
            [tpl |-> ArithTemplate(k + 1, "-", 1) \o ArithTemplate(8, "-", 1),
             val |-> NumStr(k + 1) \o ArithTemplate(8, "-", 1),
             nxt |-> ArithTemplate(k, "-", 1) \o ArithTemplate(8, "-", 1)] }
          : k \in 1..9 }
  \cup
  { [tpl |-> IndexedTemplate(FilesKw, <<"d">>, 0) \o IndexedTemplate(FilesKw, <<"d">>, 1),
     val |-> <<"d", "/", "p">> \o IndexedTemplate(FilesKw, <<"d">>, 1),
     nxt |-> IndexedTemplate(FilesKw, <<"d">>, 1) \o IndexedTemplate(FilesKw, <<"d">>, 1)],
    [tpl |-> IndexedTemplate(LinesKw, <<"f">>, 0) \o IndexedTemplate(LinesKw, <<"f">>, 1),
     val |-> <<"u", " ", "v">> \o IndexedTemplate(LinesKw, <<"f">>, 1),
     nxt |-> IndexedTemplate(LinesKw, <<"f">>, 1) \o IndexedTemplate(LinesKw, <<"f">>, 1)],
    [tpl |-> IndexedTemplate(WordsKw, <<"f">>, 0) \o IndexedTemplate(WordsKw, <<"f">>, 1),
     val |-> <<"u">> \o IndexedTemplate(WordsKw, <<"f">>, 1),
     nxt |-> IndexedTemplate(WordsKw, <<"f">>, 1) \o IndexedTemplate(WordsKw, <<"f">>, 1)] }

\* two lists: every list is evaluated and rotated
ListPairCases ==
  { [tpl |-> ListTemplate(<<>>, <<x, y>>) \o ListTemplate(<<>>, <<z, w>>),
     val |-> x \o z,
     nxt |-> ListTemplate(<<>>, <<y, x>>) \o ListTemplate(<<>>, <<w, z>>)]
    : x \in {<<"a">>, <<"b">>}, y \in {<<"a">>, <<"b">>},
      z \in {<<"c">>, <<"d">>}, w \in {<<"c">>, <<"d">>} }

\* C25: a run of a task whose data or postData holds two placeholders of
\* one kind (inc, dec, A + B, A - B, files, lines, words) evaluates and
\* advances the first only: the second is sent as it is written and stays as
\* it is in the task. Of two lists both are evaluated and rotated.
C25_FirstOccurrenceOnly ==
  [][\A n \in TaskNames :
       (last'.op \in {"tick", "runNow"} /\ RunOf(n)) =>
         \A c \in PairCases \cup ListPairCases, fld \in {"data", "postData"} :
           gTasks[FindIndex(gTasks, n)][fld] = c.tpl =>
             /\ runs'[n] = Append(runs[n], runs'[n][Len(runs'[n])])
             /\ runs'[n][Len(runs'[n])][fld] = c.val
             /\ gTasks'[FindIndex(gTasks, n)][fld] = c.nxt]_vars

\* ~words f 0~~words f 1~ and ~{a b}~~{c d}~ were run once
C25_Witness ==
  /\ Len(runs[NameA]) = 1
  /\ runs[NameA][1].data = <<"u">> \o IndexedTemplate(WordsKw, <<"f">>, 1)
  /\ runs[NameA][1].postData = <<"a", "c">>
  /\ gTasks[FindIndex(gTasks, NameA)].data
       = IndexedTemplate(WordsKw, <<"f">>, 1) \o IndexedTemplate(WordsKw, <<"f">>, 1)
  /\ gTasks[FindIndex(gTasks, NameA)].postData
       = ListTemplate(<<>>, << <<"b">>, <<"a">> >>) \o ListTemplate(<<>>, << <<"d">>, <<"c">> >>)

\* C26: a run of a task whose data or postData is ~dec$v~ sends v and
\* leaves ~dec$(v-1)~ in the task, for the values v that runs from ~dec$N~,
\* N >= 0, come to, those below zero included.
C26_DecCountsDown ==
  [][\A n \in TaskNames :
       RunOf(n) =>
         \A v \in (0 - MaxRuns)..9, fld \in {"data", "postData"} :
           gTasks[FindIndex(gTasks, n)][fld] = DecTemplate(v) =>
             /\ runs'[n] = Append(runs[n], runs'[n][Len(runs'[n])])
             /\ runs'[n][Len(runs'[n])][fld] = NumStr(v)
             /\ gTasks'[FindIndex(gTasks, n)][fld] = DecTemplate(v - 1)]_vars

\* ~dec$0~ was run twice: 0 was sent, then the text ~dec$-1~
C26_Witness ==
  /\ Len(runs[NameA]) = 2
  /\ runs[NameA][1].postData = <<"0">>
  /\ runs[NameA][2].postData = DecTemplate(0 - 1)
  /\ gTasks[FindIndex(gTasks, NameA)].postData = DecTemplate(0 - 1)

\* C27: a run of a task whose data or postData is ~a + b~ sends a and
\* leaves ~(a+b) + b~; one whose data or postData is ~a - b~ sends a and
\* leaves ~(a-b) - b~, for the values a that runs from ~A - B~, A >= 0 and
\* B >= 0, come to, those below zero included.
C27_ArithSteps ==
  [][\A n \in TaskNames :
       RunOf(n) =>
         \A a \in (0 - 3)..9, b \in 1..2, op \in {"+", "-"}, fld \in {"data", "postData"} :
           gTasks[FindIndex(gTasks, n)][fld] = ArithTemplate(a, op, b) =>
             /\ runs'[n] = Append(runs[n], runs'[n][Len(runs'[n])])
             /\ runs'[n][Len(runs'[n])][fld] = NumStr(a)
             /\ gTasks'[FindIndex(gTasks, n)][fld]
                  = ArithTemplate(IF op = "+" THEN a + b ELSE a - b, op, b)]_vars

\* ~1 + 2~ and ~1 - 2~ were run twice: 1 and 3 were sent for the sum, 1 and
\* the text ~-1 - 2~ for the difference
C27_Witness ==
  /\ Len(runs[NameA]) = 2
  /\ runs[NameA][1].data = <<"1">>
  /\ runs[NameA][2].data = <<"3">>
  /\ runs[NameA][1].postData = <<"1">>
  /\ runs[NameA][2].postData = ArithTemplate(0 - 1, "-", 2)
  /\ gTasks[FindIndex(gTasks, NameA)].postData = ArithTemplate(0 - 1, "-", 2)

\* C28: in one life of the process, whatever the order of the ticks, the
\* run-now calls and the ends of the requests, the runs of a task since it
\* was last added have sent the successive values of its counter, none
\* twice and none skipped: when k runs were dispatched and the task holds
\* ~inc$M~, the i-th of them sent M - k + i - 1. This holds also while the
\* requests of earlier runs are not yet answered.
C28_RunsAreAtomic ==
  \A n \in TaskNames :
    HasTask(gTasks, n) =>
      \A pre \in {<<>>, <<"u">>}, M \in 0..(9 + MaxRuns), fld \in {"data", "postData"} :
        gTasks[FindIndex(gTasks, n)][fld] = IncTemplate(pre, M) =>
          /\ M >= Len(runs[n])
          /\ \A i \in 1..Len(runs[n]) :
               runs[n][i][fld] = IncValue(pre, M - Len(runs[n]) + i - 1)

\* the second run of a task was dispatched by a timer while the request of
\* the first was not answered
C28_Witness ==
  /\ last = Last("tick", "dispatched")
  /\ Len(runs[NameA]) = 2
  /\ runs[NameA][1].data = <<"1">>
  /\ runs[NameA][2].data = <<"2">>
  /\ BagCardinality(inflight) = 2
  /\ gTasks[FindIndex(gTasks, NameA)].data = IncTemplate(<<>>, 3)

\* data and postData of the task named x
Templates(ts, x) == <<ts[FindIndex(ts, x)].data, ts[FindIndex(ts, x)].postData>>

\* C29: a run of the task x changes, of the tasks, the routines and the
\* tables tasks and intervals, only the data and the postData of x; and
\* while x stays defined its data and postData change only in a run of x, in
\* an add of x, or when a snapshot with an entry of x is applied.
C29_TemplatesArePrivate ==
  [][\A x \in TaskNames :
       /\ (last'.op \in {"tick", "runNow"} /\ RunOf(x)) =>
            /\ Len(gTasks') = Len(gTasks)
            /\ \A i \in DOMAIN gTasks :
                 IF i = FindIndex(gTasks, x)
                 THEN gTasks'[i] = [gTasks[i] EXCEPT !.data = gTasks'[i].data,
                                                     !.postData = gTasks'[i].postData]
                 ELSE gTasks'[i] = gTasks[i]
            /\ UNCHANGED <<gIntervals, timers, nextId, dbTasks, dbIntervals>>
       /\ (/\ HasTask(gTasks, x)
           /\ HasTask(gTasks', x)
           /\ Templates(gTasks', x) # Templates(gTasks, x)) =>
            \/ last'.op \in {"tick", "runNow"} /\ RunOf(x)
            \/ last'.op = "addTask" /\ \E b \in Bodies : AddTask(x, b)
            \/ \E p \in pendingIO :
                 FileRead(p) /\ x \in StoredNames(ReadCfg(p.cfg).entries)]_vars

\* the timer of a ran a while b was defined: the counter of a went on, the
\* counter of b did not
C29_Witness ==
  /\ last = Last("tick", "dispatched")
  /\ Names(gTasks) = {NameA, NameB}
  /\ Len(runs[NameA]) = 1
  /\ Len(runs[NameB]) = 0
  /\ gTasks[FindIndex(gTasks, NameA)].data = IncTemplate(<<>>, 2)
  /\ gTasks[FindIndex(gTasks, NameB)].data = IncTemplate(<<>>, 1)

\* C30: after a kill no timer has the id killed, and after the delete of a
\* task no timer has its name; a timer that is created gets an id that no
\* timer of this process had, so that a cancelled timer does not come back,
\* and a tick is the tick of a timer that is running. The kill and the delete
\* leave the requests that are on their way as they are, and the end of a
\* request, with or without error, appends its entry to the log whether or
\* not the routine still exists.
C30_CancelStopsTicks ==
  [][/\ last'.op = "kill" =>
          \A i \in KillIds :
            KillRoutine(i) => (\A t \in timers' : t.id # i) /\ inflight' = inflight
     /\ last'.op = "delTask" =>
          \A n \in TaskNames :
            DeleteTask(n) => (\A t \in timers' : t.name # n) /\ inflight' = inflight
     /\ \A t \in timers : t.id <= nextId
     /\ (up /\ up') => \A t \in timers' \ timers : t.id > nextId
     /\ last'.op = "tick" => timers # {} /\ timers' = timers
     /\ \A r \in BagToSet(inflight) :
          (RequestEnd(r) \/ RequestError(r)) =>
             /\ Len(gTasksLog') = Len(gTasksLog) + 1
             /\ Len(dbLogs') = Len(dbLogs) + 1]_vars

\* the routines were killed while a request of a run was on its way, and
\* then the request ended and was logged
C30_Witness ==
  /\ last = Last("requestEnd", "ok")
  /\ timers = {}
  /\ gIntervals = <<>>
  /\ Names(gTasks) = {NameA, NameB}
  /\ gTasksLog = <<"response">>

\* the placeholders over the folder e and the file g, which upload/ does not hold
MissingTemplates ==
  { IndexedTemplate(kw, co1, k) :
      kw \in {FilesKw}, co1 \in {<<"e">>}, k \in 0..MaxRuns }
  \cup
  { IndexedTemplate(kw, co1, k) :
      kw \in {LinesKw, WordsKw}, co1 \in {<<"g">>}, k \in 0..MaxRuns }

\* C31 as stated: a run of a task whose data or postData is a files, lines
\* or words placeholder of a folder or file that does not exist is not
\* dispatched: it ends with one more entry in the log, and the timers and
\* the registry stay as they are.
C31_MissingFileFailsRun ==
  [][last'.op \in {"tick", "runNow"} =>
     \A n \in TaskNames :
       RunOf(n) =>
         \A c \in MissingTemplates, fld \in {"data", "postData"} :
           gTasks[FindIndex(gTasks, n)][fld] = c =>
             /\ last'.res # "dispatched"
             /\ Len(gTasksLog') = Len(gTasksLog) + 1
             /\ timers' = timers
             /\ gIntervals' = gIntervals]_vars

\* ~files e 0~ of a folder that does not exist was run: the request went out
\* with the empty string, nothing was logged
C31_Witness ==
  /\ last.res = "dispatched"
  /\ Len(runs[NameA]) = 1
  /\ runs[NameA][1].data = <<>>
  /\ runs[NameA][1].postData = <<>>
  /\ gTasks[FindIndex(gTasks, NameA)].data = IndexedTemplate(FilesKw, <<"e">>, 1)
  /\ gTasksLog = <<>>
  /\ BagCardinality(inflight) = 1

\* C33: a run of a task of any type sends, for data and for postData, the
\* value of the field and leaves its next template: a counter ~inc$k~ in
\* either field gives k and becomes ~inc$(k+1)~, a field without a
\* placeholder is sent and stays as it is, whatever the other field holds
\* and whether or not the request of the type carries the field.
C33_FieldsIndependent ==
  [][last'.op \in {"tick", "runNow"} =>
     \A n \in TaskNames :
       RunOf(n) =>
         /\ runs'[n] = Append(runs[n], runs'[n][Len(runs'[n])])
         /\ gTasks'[FindIndex(gTasks, n)].type = gTasks[FindIndex(gTasks, n)].type
         /\ \A fld \in {"data", "postData"} :
              /\ \A pre \in {<<>>, <<"u">>}, k \in 0..(9 + MaxRuns) :
                   gTasks[FindIndex(gTasks, n)][fld] = IncTemplate(pre, k) =>
                     /\ runs'[n][Len(runs'[n])][fld] = IncValue(pre, k)
                     /\ gTasks'[FindIndex(gTasks, n)][fld] = IncTemplate(pre, k + 1)
              /\ gTasks[FindIndex(gTasks, n)][fld] \in {<<>>, <<"x">>} =>
                     /\ runs'[n][Len(runs'[n])][fld] = gTasks[FindIndex(gTasks, n)][fld]
                     /\ gTasks'[FindIndex(gTasks, n)][fld]
                          = gTasks[FindIndex(gTasks, n)][fld]]_vars

\* a task of a type that doTask does not know, with a counter in data and
\* one in postData, was run twice
C33_Witness ==
  /\ last.res = "dispatched"
  /\ HasTask(gTasks, NameA)
  /\ gTasks[FindIndex(gTasks, NameA)].type = "zzz"
  /\ Len(runs[NameA]) = 2
  /\ runs[NameA][2].data = IncValue(<<"u">>, 10)
  /\ runs[NameA][2].postData = <<"2">>
  /\ gTasks[FindIndex(gTasks, NameA)].data = IncTemplate(<<"u">>, 11)
  /\ gTasks[FindIndex(gTasks, NameA)].postData = IncTemplate(<<>>, 3)

\* C32: while the process runs, no task of gTasks has a name that is empty
\* or made of white space only, whatever was posted to /api/task/add,
\* whatever the snapshots imported and reloaded hold and whatever rows
\* table tasks had when the process started.
C32_NoBlankNames ==
  \A i \in DOMAIN gTasks : Trim(StringOrEmpty(gTasks[i].name)) # <<>>

\* the process started from a table with a row of blank name and then
\* imported a snapshot with entries of blank name: the row is still in the
\* table, and the tasks in memory are a and b
C32_Witness ==
  /\ up
  /\ last.op = "import"
  /\ \E r \in dbTasks : Trim(StringOrEmpty(r.name)) = <<>>
  /\ Names(gTasks) = {NameA, NameB}

\* C34: while the process runs and the writes to the database succeed, the
\* log in memory is the last min(1000, n) of the n rows of table logs, in
\* their order, after every append, clear, /api/restart and start of the
\* process: GET /api/task/log/ answers the same from the table and from
\* memory.
C34_LogMirrorsTable ==
  up =>
    /\ Len(gTasksLog) = (IF Len(dbLogs) < 1000 THEN Len(dbLogs) ELSE 1000)
    /\ \A i \in 1..Len(gTasksLog) :
         gTasksLog[i] = dbLogs[Len(dbLogs) - Len(gTasksLog) + i]

\* the table went over 1000 rows and the process was started again: memory
\* holds the last 1000 of 1001 rows
C34_Witness ==
  /\ up
  /\ last.op = "startup"
  /\ Len(dbLogs) = 1001
  /\ Len(gTasksLog) = 1000
  /\ gTasksLog[1000] \in {"response", "notFound"}
  /\ dbLogs[1] = "old"

\* C35: a kill of the id of a routine takes that timer, and no other, out
\* of the timers and out of the registry: the timers of other ids stay,
\* those of the same task too; it deletes the row of table intervals of the
\* name of the routine and no other row, and leaves the tasks as they are.
C35_KillRemovesOneTimer ==
  [][last'.op = "kill" =>
       \A i \in KillIds :
         (KillRoutine(i) /\ i \in Ids(gIntervals)) =>
           /\ timers' = {t \in timers : t.id # i}
           /\ gIntervals' = SelectSeq(gIntervals, LAMBDA inte : inte.id # i)
           /\ \A t \in timers :
                t.id = i => dbIntervals' = {d \in dbIntervals : d.name # t.name}
           /\ UNCHANGED <<gTasks, dbTasks, nextId>>]_vars

\* of two routines of one task one was killed: the other is running, and
\* table intervals has no row
C35_Witness ==
  /\ last = Last("kill", "ok")
  /\ nextId = 2
  /\ Len(gIntervals) = 1
  /\ Cardinality(timers) = 1
  /\ \A t \in timers : t.name = NameA /\ HasTask(gTasks, NameA)
  /\ Names(gTasks) = {NameA}
  /\ dbIntervals = {}

\* C36: /api/reload cancels every timer of the registry and empties the
\* registry, the tasks and the log in memory and the three tables before it
\* reads the snapshot; when the file cannot be read or is not JSON, the
\* callback answers with the error and restores nothing: memory and tables
\* stay as the clearing left them.
C36_ReloadClearsFirst ==
  [][/\ last'.op = "reloadStart" =>
          /\ timers' = {}
          /\ gIntervals' = <<>>
          /\ gTasks' = <<>>
          /\ gTasksLog' = <<>>
          /\ dbTasks' = {}
          /\ dbIntervals' = {}
          /\ dbLogs' = <<>>
          /\ \E p \in pendingIO' : p.op = "reload"
     /\ (last'.op = "reload" /\ last'.res \in {"readError", "invalid"}) =>
          UNCHANGED <<mem, db>>]_vars

\* a reload of a file that is not JSON has answered with the error, after a
\* task with a routine had run: nothing is left in memory or in the tables
C36_Witness ==
  /\ last = Last("reload", "invalid")
  /\ nextId >= 1
  /\ inflight # EmptyBag
  /\ gTasks = <<>> /\ gIntervals = <<>> /\ gTasksLog = <<>> /\ timers = {}
  /\ dbTasks = {} /\ dbIntervals = {} /\ dbLogs = <<>>

\* the routines of a registry as a bag of <<name, period>>
RoutineBag(ivs) ==
  LET keys == {<<ivs[i].name, ivs[i].time>> : i \in DOMAIN ivs}
  IN [k \in keys |->
        Cardinality({i \in DOMAIN ivs : <<ivs[i].name, ivs[i].time>> = k})]

C37_MissingTaskRun ==
  [][last'.op \in {"tick", "runNow", "delayed"} =>
       /\ last'.res = "notFound" =>
            /\ gTasksLog' = Append(gTasksLog, "notFound")
            /\ dbLogs' = Append(dbLogs, "notFound")
            /\ inflight' = inflight
            /\ UNCHANGED <<gTasks, gIntervals, timers, nextId, dbTasks, dbIntervals>>
       /\ \A n \in RunNames, h \in Hours, d \in Dates :
            (/\ ~HasTask(gTasks, n)
             /\ \/ RunNow(n, h, d)
                \/ \E t \in timers : t.name = n /\ Tick(t, h, d)
                \/ \E p \in pendingIO :
                     p.op = "delayed" /\ p.cfg = n /\ DelayedRun(p, h, d)) =>
              last'.res = "notFound"]_vars

\* a delayed run was asked for a task that had run; /api/restart removed
\* the task, and then the callback of the setTimeout found no task
C37_Witness ==
  /\ last = Last("delayed", "notFound")
  /\ gTasks = <<>>
  /\ inflight # EmptyBag
  /\ gTasksLog = <<"notFound">>
  /\ dbLogs = <<"notFound">>

\* C39: /api/task/add of a name that has routines leaves the timers, the
\* registry and table intervals as they are, and puts the definition of the
\* request in the place of the old one; the next tick of a routine runs
\* that definition: it sends the values of the templates as they were
\* supplied, so a counter starts again at the supplied number.
C39_UpdateKeepsRoutines ==
  [][/\ last'.op = "addTask" =>
          \A b \in TplBodies \cup Bodies :
            (AddTask(NameA, b) /\ last'.res = "ok") =>
              /\ UNCHANGED <<timers, gIntervals, dbIntervals, nextId>>
              /\ Names(gTasks') = {NameA}
              /\ gTasks'[FindIndex(gTasks', NameA)] = Task(NameA, b)
              /\ Task(NameA, b) \in dbTasks'
     /\ (last.op = "addTask" /\ last.res = "ok" /\ last'.op = "tick") =>
          \A b \in TplBodies \cup Bodies :
            gTasks[FindIndex(gTasks, NameA)] = Task(NameA, b) =>
              /\ last'.res = "dispatched"
              /\ \E h \in Hours, d \in Dates :
                   runs'[NameA] = <<RunRecord(Task(NameA, b), h, d)>>
              /\ gTasks'[FindIndex(gTasks', NameA)] = Advanced(Task(NameA, b))]_vars

\* a task with a routine ran, so that its counter left the supplied number,
\* and was then added again with the counter at 1, and the routine ticked:
\* the tick sent 1
C39_Witness ==
  /\ last = Last("tick", "dispatched")
  /\ timers # {}
  /\ BagCardinality(inflight) = 2
  /\ Len(runs[NameA]) = 1
  /\ runs[NameA][1].data = <<"1">>

\* C40: /api/cfg/import reads and collects the whole snapshot before it
\* touches anything: when the file cannot be read, is not JSON or has an
\* entry of type task or routine without data, the tasks, the registry, the
\* timers, the three tables and the log are as before. An import that
\* succeeds, unlike a reload, keeps every task the snapshot does not name
\* and every routine and timer there was, in memory and in the tables.
C40_ImportAllOrNothing ==
  [][last'.op = "import" =>
       \A p \in pendingIO :
         (p.op = "import" /\ FileRead(p)) =>
           /\ p.cfg \in {"broken.json", "nodata.json", "gone.json"} =>
                /\ UNCHANGED <<mem, db>>
                /\ last'.res = (CASE p.cfg = "broken.json" -> "invalid"
                                  [] p.cfg = "nodata.json" -> "thrown"
                                  [] OTHER -> "readError")
           /\ p.cfg = "order.json" =>
                /\ last'.res \in {"ok", "skipped"}
                /\ \A i \in DOMAIN gTasks :
                     gTasks[i].name # NameB => gTasks'[i] = gTasks[i]
                /\ SubSeq(gIntervals', 1, Len(gIntervals)) = gIntervals
                /\ timers \subseteq timers'
                /\ {r \in dbTasks : r.name # NameB} \subseteq dbTasks'
                /\ {d \in dbIntervals : d.name # NameB} \subseteq dbIntervals'
                /\ UNCHANGED <<gTasksLog, dbLogs>>]_vars

\* task a with its routine had run and logged; the import of a snapshot
\* with an entry without data threw and left all of it as it was
C40_Witness ==
  /\ last = Last("import", "thrown")
  /\ Names(gTasks) = {NameA}
  /\ Len(gIntervals) = 1 /\ Cardinality(timers) = 1
  /\ gTasksLog # <<>>
  /\ Cardinality(dbTasks) = 1 /\ Cardinality(dbIntervals) = 1

\* task a with its routine was there when a snapshot of task b and its
\* routine was imported: both tasks and both routines are there
C40_WitnessKept ==
  /\ last.op = "import" /\ last.res = "skipped"
  /\ Names(gTasks) = {NameA, NameB}
  /\ {t.name : t \in timers} = {NameA, NameB}

====
